---------------------------- MODULE Spec2Model ----------------------------
(***************************************************************************)
(* Model of snake.mcp.server: the server operations pytest, mypy and       *)
(* flake8 (server.py) and the test-summary parser (tools/pytest.py).       *)
(*                                                                         *)
(* Python str values are sequences of one-character strings, so that       *)
(* substring tests, strip, split and int() are computed as Python computes *)
(* them.  An optional value (None or a value) is a sequence of length 0 or *)
(* 1: None == <<>>, Some(v) == <<v>>.                                      *)
(***************************************************************************)
EXTENDS Integers, Sequences, FiniteSets, TLC

-----------------------------------------------------------------------------
(* Bounds of the model. *)

\* largest small count written in a generated summary line
MaxCount == 1
\* a two-digit count written in a generated summary line
BigCount == 12
\* largest ordinary exit code of a child process
MaxExitCode == 3
\* number of lines of a generated child output
MaxLines == 2
\* how many times one text is given to a summary parser
MaxParses == 2
\* number of file rows of a generated coverage table
MaxRows == 2

\* lines after the header of a coverage report
MaxReportLines == 3
\* words of the name of a table row
MaxNameWords == 2
\* chunks a child writes to one of its streams
MaxChunks == 2
\* invocations that run at the same time
MaxInvocations == 2
\* chunks a pipe holds before a write to it blocks; less than MaxChunks
PipeCapacity == 1

-----------------------------------------------------------------------------
(* String literals of the source. *)

\* the outcome keywords of the summary line (tools/pytest.py 131-136, server.py 106-107)
kw ==
    [passed |-> <<"p", "a", "s", "s", "e", "d">>,
     failed |-> <<"f", "a", "i", "l", "e", "d">>,
     skipped |-> <<"s", "k", "i", "p", "p", "e", "d">>,
     xfailed |-> <<"x", "f", "a", "i", "l", "e", "d">>,
     xpassed |-> <<"x", "p", "a", "s", "s", "e", "d">>]

\* separators, markers and names written in the source
str ==
    [in |-> <<" ", "i", "n", " ">>,
     eq |-> <<"=">>,
     comma |-> <<",">>,
     nl |-> <<"\n">>,
     error_marker |-> <<":", " ", "e", "r", "r", "o", "r", ":">>,
     note_marker |-> <<":", " ", "n", "o", "t", "e", ":">>,
     pytest |-> <<"p", "y", "t", "e", "s", "t">>,
     mypy |-> <<"m", "y", "p", "y">>,
     flake8 |-> <<"f", "l", "a", "k", "e", "8">>,
     mypy_ini |-> <<"m", "y", "p", "y", ".", "i", "n", "i">>,
     tests |-> <<"t", "e", "s", "t", "s">>,
     slash |-> <<"/">>,
     dot |-> <<".">>,
     TOTAL |-> <<"T", "O", "T", "A", "L">>,
     eqeq |-> <<"=", "=">>,
     FAIL |-> <<"F", "A", "I", "L">>]

\* the pieces of the messages of the envelopes (server.py)
msg ==
    [path_pre |-> <<"P", "a", "t", "h", " ", "'">>,
     path_post |-> <<"'", " ", "d", "o", "e", "s", " ", "n", "o", "t", " ", "e", "x", "i", "s", "t">>,
     failed_to_run |-> <<"F", "a", "i", "l", "e", "d", " ", "t", "o", " ", "r", "u", "n", " ">>,
     colon |-> <<":", " ">>,
     failed |-> <<" ", "f", "a", "i", "l", "e", "d", ":", " ">>,
     all_passed |->
        <<"A", "l", "l", " ", "t", "e", "s", "t", "s", " ", "p", "a", "s", "s", "e", "d",
          " ", "s", "u", "c", "c", "e", "s", "s", "f", "u", "l", "l", "y">>,
     some_failed |->
        <<"S", "o", "m", "e", " ", "t", "e", "s", "t", "s", " ", "f", "a", "i", "l", "e",
          "d">>,
     no_issues |-> <<"N", "o", " ", "i", "s", "s", "u", "e", "s", " ", "f", "o", "u", "n", "d">>,
     found |-> <<"F", "o", "u", "n", "d", " ">>,
     type_issues |-> <<" ", "t", "y", "p", "e", " ", "i", "s", "s", "u", "e", "s">>,
     issues |-> <<" ", "i", "s", "s", "u", "e", "s">>,
     decode_pre |->
        <<"'", "u", "t", "f", "-", "8", "'", " ", "c", "o", "d", "e", "c", " ", "c", "a",
          "n", "'", "t", " ", "d", "e", "c", "o", "d", "e", " ", "b", "y", "t", "e", " ",
          "0", "x", "f", "f", " ", "i", "n", " ", "p", "o", "s", "i", "t", "i", "o", "n",
          " ">>,
     decode_post |->
        <<":", " ", "i", "n", "v", "a", "l", "i", "d", " ", "s", "t", "a", "r", "t", " ",
          "b", "y", "t", "e">>]

\* the flags the operations put on the command line (server.py)
flag ==
    [v |-> <<"-", "v">>,
     cov |-> <<"-", "-", "c", "o", "v">>,
     cov_eq |-> <<"-", "-", "c", "o", "v", "=">>,
     cov_report |->
        <<"-", "-", "c", "o", "v", "-", "r", "e", "p", "o", "r", "t", "=", "t", "e", "r",
          "m">>,
     config_file |-> <<"-", "-", "c", "o", "n", "f", "i", "g", "-", "f", "i", "l", "e">>,
     exclude_eq |-> <<"-", "-", "e", "x", "c", "l", "u", "d", "e", "=">>,
     exclude_tests |-> <<"-", "-", "e", "x", "c", "l", "u", "d", "e", "=", "t", "e", "s", "t", "s", "/">>,
     untyped |->
        <<"-", "-", "d", "i", "s", "a", "l", "l", "o", "w", "-", "u", "n", "t", "y", "p",
          "e", "d", "-", "d", "e", "f", "s">>,
     incomplete |->
        <<"-", "-", "d", "i", "s", "a", "l", "l", "o", "w", "-", "i", "n", "c", "o", "m",
          "p", "l", "e", "t", "e", "-", "d", "e", "f", "s">>,
     max_line |->
        <<"-", "-", "m", "a", "x", "-", "l", "i", "n", "e", "-", "l", "e", "n", "g", "t",
          "h", "=">>]

\* the column names of the coverage table header (server.py 164-165)
hdr ==
    [Name |-> <<"N", "a", "m", "e">>,
     Stmts |-> <<"S", "t", "m", "t", "s">>,
     Miss |-> <<"M", "i", "s", "s">>,
     Cover |-> <<"C", "o", "v", "e", "r">>]

-----------------------------------------------------------------------------
(* Python built-ins used by the source, on sequences of characters. *)

None == <<>>
Some(v) == <<v>>

\* characters removed by str.strip() and separating the tokens of str.split()
Whitespace == {" ", "\t", "\n"}

Digits == <<"0", "1", "2", "3", "4", "5", "6", "7", "8", "9">>

IsDigit(c) == \E i \in 1..10 : Digits[i] = c

DigitVal(c) == (CHOOSE i \in 1..10 : Digits[i] = c) - 1

\* sub in s
Contains(s, sub) ==
    \E i \in 1..(Len(s) - Len(sub) + 1) : SubSeq(s, i, i + Len(sub) - 1) = sub

\* s.find(sub) + 1, and 0 when sub does not occur in s
Find(s, sub) ==
    IF Contains(s, sub)
    THEN CHOOSE i \in 1..(Len(s) - Len(sub) + 1) :
            /\ SubSeq(s, i, i + Len(sub) - 1) = sub
            /\ \A j \in 1..(i - 1) : SubSeq(s, j, j + Len(sub) - 1) # sub
    ELSE 0

RECURSIVE LStrip(_, _)
LStrip(s, chars) ==
    IF s # <<>> /\ Head(s) \in chars THEN LStrip(Tail(s), chars) ELSE s

RECURSIVE RStrip(_, _)
RStrip(s, chars) ==
    IF s # <<>> /\ s[Len(s)] \in chars
    THEN RStrip(SubSeq(s, 1, Len(s) - 1), chars)
    ELSE s

\* s.strip(chars); s.strip() is Strip(s, Whitespace)
Strip(s, chars) == RStrip(LStrip(s, chars), chars)

\* s.split(sep) for a non-empty separator
RECURSIVE Split(_, _)
Split(s, sep) ==
    LET i == Find(s, sep)
    IN  IF i = 0
        THEN <<s>>
        ELSE <<SubSeq(s, 1, i - 1)>> \o Split(SubSeq(s, i + Len(sep), Len(s)), sep)

\* s.splitlines(): the lines of s without their line ends; no empty last line
RECURSIVE SplitLines(_)
SplitLines(s) ==
    IF s = <<>>
    THEN <<>>
    ELSE LET i == Find(s, <<"\n">>)
         IN  IF i = 0
             THEN <<s>>
             ELSE <<SubSeq(s, 1, i - 1)>> \o SplitLines(SubSeq(s, i + 1, Len(s)))

\* s.split(): the maximal runs of non-whitespace characters
RECURSIVE SplitWS(_)
SplitWS(s) ==
    LET t == LStrip(s, Whitespace)
    IN  IF t = <<>>
        THEN <<>>
        ELSE LET n == IF \E i \in 1..Len(t) : t[i] \in Whitespace
                      THEN (CHOOSE i \in 1..Len(t) :
                               /\ t[i] \in Whitespace
                               /\ \A j \in 1..(i - 1) : t[j] \notin Whitespace) - 1
                      ELSE Len(t)
             IN  <<SubSeq(t, 1, n)>> \o SplitWS(SubSeq(t, n + 1, Len(t)))

\* value of a non-empty run of digits and single underscores between digits
RECURSIVE DigitsValue(_, _)
DigitsValue(s, acc) ==
    IF s = <<>>
    THEN acc
    ELSE IF Head(s) = "_"
         THEN DigitsValue(Tail(s), acc)
         ELSE DigitsValue(Tail(s), 10 * acc + DigitVal(Head(s)))

\* the literals int() accepts after the sign: digits, with single underscores
\* only between two digits
IsIntBody(s) ==
    /\ s # <<>>
    /\ \A i \in 1..Len(s) : IsDigit(s[i]) \/ s[i] = "_"
    /\ IsDigit(s[1])
    /\ IsDigit(s[Len(s)])
    /\ \A i \in 1..(Len(s) - 1) : ~(s[i] = "_" /\ s[i + 1] = "_")

\* int(s): [ok |-> TRUE, val |-> n], or ok = FALSE where int() raises ValueError
ParseInt(s) ==
    LET t    == Strip(s, Whitespace)
        neg  == t # <<>> /\ Head(t) = "-"
        body == IF t # <<>> /\ Head(t) \in {"+", "-"} THEN Tail(t) ELSE t
    IN  IF IsIntBody(body)
        THEN [ok |-> TRUE,
              val |-> IF neg THEN 0 - DigitsValue(body, 0) ELSE DigitsValue(body, 0)]
        ELSE [ok |-> FALSE, val |-> 0]

\* str(n) for an integer n
RECURSIVE NatToStr(_)
NatToStr(n) ==
    IF n < 10
    THEN <<Digits[n + 1]>>
    ELSE NatToStr(n \div 10) \o <<Digits[(n % 10) + 1]>>

IntToStr(n) == IF n < 0 THEN <<"-">> \o NatToStr(0 - n) ELSE NatToStr(n)

\* sep.join(parts)
RECURSIVE Join(_, _)
Join(parts, sep) ==
    IF parts = <<>>
    THEN <<>>
    ELSE IF Len(parts) = 1
         THEN parts[1]
         ELSE parts[1] \o sep \o Join(Tail(parts), sep)

-----------------------------------------------------------------------------
(* tools/pytest.py: parse_test_summary and _parse_summary. *)

Keywords == <<kw.passed, kw.failed, kw.skipped, kw.xfailed, kw.xpassed>>

ZeroSummary ==
    [total |-> 0, passed |-> 0, failed |-> 0, skipped |-> 0, xfailed |-> 0, xpassed |-> 0]

\* the five counts added up
SumOfCounts(ts) == ts.passed + ts.failed + ts.skipped + ts.xfailed + ts.xpassed

\* is_summary without the test for '='
is_summary_without_delimiter(line) == \E k \in 1..Len(Keywords) : Contains(line, Keywords[k])

\* the test of parse_test_summary for a summary line
is_summary(line) ==
    /\ Contains(line, str.eq)
    /\ \E k \in 1..Len(Keywords) : Contains(line, Keywords[k])

\* PartField without the tests that keep xpassed and xfailed apart
PartFieldShortestFirst(part) ==
    IF Contains(part, kw.passed) THEN "passed"
    ELSE IF Contains(part, kw.failed) THEN "failed"
    ELSE IF Contains(part, kw.skipped) THEN "skipped"
    ELSE IF Contains(part, kw.xfailed) THEN "xfailed"
    ELSE IF Contains(part, kw.xpassed) THEN "xpassed"
    ELSE ""

\* the field a fragment is counted under by the if/elif chain, "" for none
PartField(part) ==
    IF Contains(part, kw.passed) /\ ~Contains(part, kw.xpassed) THEN "passed"
    ELSE IF Contains(part, kw.failed) /\ ~Contains(part, kw.xfailed) THEN "failed"
    ELSE IF Contains(part, kw.skipped) THEN "skipped"
    ELSE IF Contains(part, kw.xfailed) THEN "xfailed"
    ELSE IF Contains(part, kw.xpassed) THEN "xpassed"
    ELSE ""

\* one iteration of the loop over the fragments of the summary line
ParsePart(test_summary, rawpart) ==
    LET part == Strip(rawpart, Whitespace)
    IN  IF part = <<>>
        THEN test_summary
        ELSE LET field == PartField(part)
                 n     == ParseInt(SplitWS(part)[1])
             IN  IF field = "" \/ ~n.ok
                 THEN test_summary
                 ELSE [test_summary EXCEPT ![field] = n.val]

RECURSIVE ParseParts(_, _)
ParseParts(test_summary, parts) ==
    IF parts = <<>>
    THEN test_summary
    ELSE ParseParts(ParsePart(test_summary, Head(parts)), Tail(parts))

\* the text of the summary line that is split into fragments
SummaryBody(line) ==
    LET stripped == Strip(Strip(line, {"="}), Whitespace)
    IN  IF Contains(stripped, str.in)
        THEN Strip(Split(stripped, str.in)[1], Whitespace)
        ELSE stripped

\* _parse_summary that leaves total as it was
_parse_summary_stale_total(test_summary, line) ==
    ParseParts(test_summary, Split(SummaryBody(line), str.comma))

_parse_summary(test_summary, line) ==
    LET counted == ParseParts(test_summary, Split(SummaryBody(line), str.comma))
    IN  [counted EXCEPT !.total = SumOfCounts(counted)]

\* the first line of lines that is_summary accepts, as an optional value
RECURSIVE FirstSummaryLine(_)
FirstSummaryLine(lines) ==
    IF lines = <<>>
    THEN None
    ELSE IF is_summary(Head(lines))
         THEN Some(Head(lines))
         ELSE FirstSummaryLine(Tail(lines))

\* parse_test_summary that parses the first line whatever it holds
parse_test_summary_first_line(output) ==
    LET lines == SplitLines(output)
    IN  IF lines = <<>>
        THEN ZeroSummary
        ELSE _parse_summary(ZeroSummary, lines[1])

parse_test_summary(output) ==
    LET found == FirstSummaryLine(SplitLines(output))
    IN  IF found = None
        THEN ZeroSummary
        ELSE _parse_summary(ZeroSummary, found[1])

-----------------------------------------------------------------------------
(* pathlib.Path on POSIX: a path is its root flag and its components. *)

\* the elements of seq that satisfy neither "" nor "."
RECURSIVE PathComponents(_)
PathComponents(seq) ==
    IF seq = <<>>
    THEN <<>>
    ELSE IF Head(seq) = <<>> \/ Head(seq) = str.dot
         THEN PathComponents(Tail(seq))
         ELSE <<Head(seq)>> \o PathComponents(Tail(seq))

\* pathlib.Path(s)
PathOf(s) ==
    [root |-> (s # <<>> /\ Head(s) = "/"), parts |-> PathComponents(Split(s, str.slash))]

\* str(p)
PathStr(p) ==
    IF p.root
    THEN str.slash \o Join(p.parts, str.slash)
    ELSE IF p.parts = <<>> THEN str.dot ELSE Join(p.parts, str.slash)

\* p.name
PathName(p) == IF p.parts = <<>> THEN <<>> ELSE p.parts[Len(p.parts)]

\* p.parent
PathParent(p) ==
    IF p.parts = <<>> THEN p ELSE [p EXCEPT !.parts = SubSeq(@, 1, Len(@) - 1)]

\* p / name, for a name of one component
PathJoin(p, name) == [p EXCEPT !.parts = @ \o <<name>>]

-----------------------------------------------------------------------------
(* server.py: the command each operation builds. *)

\* bool(x) of an optional list or an optional str: None and the empty value are false
Truthy(opt) == opt # None /\ opt[1] # <<>>

\* server.py pytest, lines 65-81
PytestCmd(opts) ==
    <<str.pytest>>
    \o (IF opts.verbose THEN <<flag.v>> ELSE <<>>)
    \o (IF opts.coverage
        THEN (IF Truthy(opts.coverage_source)
              THEN <<flag.cov_eq \o opts.coverage_source[1]>>
              ELSE <<flag.cov>>) \o <<flag.cov_report>>
        ELSE <<>>)
    \o (IF Truthy(opts.args) THEN opts.args[1] ELSE <<>>)

\* one --exclude=<entry> per entry of the caller's exclude list
RECURSIVE ExcludeFlags(_)
ExcludeFlags(entries) ==
    IF entries = <<>>
    THEN <<>>
    ELSE <<flag.exclude_eq \o Head(entries)>> \o ExcludeFlags(Tail(entries))

\* the config file mypy is pointed at, if one exists (lines 286-295)
MypyConfigPath(p, fs) ==
    IF fs.config_in_path
    THEN Some(PathJoin(PathOf(p), str.mypy_ini))
    ELSE IF fs.config_in_parent
         THEN Some(PathJoin(PathParent(PathOf(p)), str.mypy_ini))
         ELSE None

\* MypyCmd that excludes tests/ by default whatever the name of the path
MypyCmdExcludeUnderTests(p, opts, fs) ==
    <<str.mypy>>
    \o (IF MypyConfigPath(p, fs) # None
        THEN <<flag.config_file, PathStr(MypyConfigPath(p, fs)[1])>>
        ELSE <<>>)
    \o (IF Truthy(opts.exclude)
        THEN ExcludeFlags(opts.exclude[1])
        ELSE IF fs.tests_dir = "dir"
             THEN <<flag.exclude_tests>>
             ELSE <<>>)
    \o (IF opts.disallow_untyped_defs THEN <<flag.untyped>> ELSE <<>>)
    \o (IF opts.disallow_incomplete_defs THEN <<flag.incomplete>> ELSE <<>>)
    \o (IF Truthy(opts.args) THEN opts.args[1] ELSE <<>>)
    \o <<p>>

\* server.py mypy, lines 284-319; the errors of the probe named in line 306 are
\* passed over
MypyCmd(p, opts, fs) ==
    <<str.mypy>>
    \o (IF MypyConfigPath(p, fs) # None
        THEN <<flag.config_file, PathStr(MypyConfigPath(p, fs)[1])>>
        ELSE <<>>)
    \o (IF Truthy(opts.exclude)
        THEN ExcludeFlags(opts.exclude[1])
        ELSE IF PathName(PathOf(p)) # str.tests /\ fs.tests_dir = "dir"
             THEN <<flag.exclude_tests>>
             ELSE <<>>)
    \o (IF opts.disallow_untyped_defs THEN <<flag.untyped>> ELSE <<>>)
    \o (IF opts.disallow_incomplete_defs THEN <<flag.incomplete>> ELSE <<>>)
    \o (IF Truthy(opts.args) THEN opts.args[1] ELSE <<>>)
    \o <<p>>

\* Flake8Cmd that appends the path before the caller's arguments
Flake8CmdPathBeforeArgs(p, opts) ==
    <<str.flake8>>
    \o (IF opts.max_line_length # None
        THEN <<flag.max_line \o IntToStr(opts.max_line_length[1])>>
        ELSE <<>>)
    \o <<p>>
    \o (IF Truthy(opts.args) THEN opts.args[1] ELSE <<>>)

\* server.py flake8, lines 407-415
Flake8Cmd(p, opts) ==
    <<str.flake8>>
    \o (IF opts.max_line_length # None
        THEN <<flag.max_line \o IntToStr(opts.max_line_length[1])>>
        ELSE <<>>)
    \o (IF Truthy(opts.args) THEN opts.args[1] ELSE <<>>)
    \o <<p>>

-----------------------------------------------------------------------------
(* float(): a finite value is m / 10^e in lowest decimal form (m not        *)
(* divisible by 10 unless e = 0); nan and the infinities are kinds.         *)

RECURSIVE NormDec(_, _)
NormDec(m, e) == IF e > 0 /\ m % 10 = 0 THEN NormDec(m \div 10, e - 1) ELSE [m |-> m, e |-> e]

Finite(m, e) == [kind |-> "finite", m |-> NormDec(m, e).m, e |-> NormDec(m, e).e]

FloatZero == Finite(0, 0)

Lower(c) ==
    CASE c = "N" -> "n" [] c = "A" -> "a" [] c = "I" -> "i" [] c = "F" -> "f"
      [] c = "T" -> "t" [] c = "Y" -> "y" [] c = "P" -> "p" [] OTHER -> c

LowerStr(s) == [i \in 1..Len(s) |-> Lower(s[i])]

\* digits, with single underscores only between two digits; may be empty
IsDigitRun(s) == s = <<>> \/ IsIntBody(s)

CountDigits(s) == Cardinality({i \in 1..Len(s) : IsDigit(s[i])})

\* float(s): [ok |-> TRUE, val |-> v], or ok = FALSE where float() raises ValueError.
\* Decimal literals without an exponent, inf, infinity and nan are read.
ParseFloat(s) ==
    LET t     == Strip(s, Whitespace)
        neg   == t # <<>> /\ Head(t) = "-"
        body  == IF t # <<>> /\ Head(t) \in {"+", "-"} THEN Tail(t) ELSE t
        low   == LowerStr(body)
        dot   == Find(body, str.dot)
        whole == IF dot = 0 THEN body ELSE SubSeq(body, 1, dot - 1)
        frac  == IF dot = 0 THEN <<>> ELSE SubSeq(body, dot + 1, Len(body))
        mag   == DigitsValue(whole \o frac, 0)
    IN  IF low \in {<<"i", "n", "f">>, <<"i", "n", "f", "i", "n", "i", "t", "y">>}
        THEN [ok |-> TRUE, val |-> [kind |-> IF neg THEN "-inf" ELSE "inf", m |-> 0, e |-> 0]]
        ELSE IF low = <<"n", "a", "n">>
        THEN [ok |-> TRUE, val |-> [kind |-> "nan", m |-> 0, e |-> 0]]
        ELSE IF /\ IsDigitRun(whole)
                /\ IsDigitRun(frac)
                /\ whole \o frac # <<>>
        THEN [ok |-> TRUE,
              val |-> Finite(IF neg THEN 0 - mag ELSE mag, CountDigits(frac))]
        ELSE [ok |-> FALSE, val |-> FloatZero]

-----------------------------------------------------------------------------
(* server.py pytest, lines 148-202: the coverage table parser written       *)
(* inline in the operation.                                                  *)

EmptyCoverage == [total |-> FloatZero, by_file |-> <<>>]

StartsWith(s, prefix) == Len(s) >= Len(prefix) /\ SubSeq(s, 1, Len(prefix)) = prefix

EndsWith(s, suffix) ==
    Len(s) >= Len(suffix) /\ SubSeq(s, Len(s) - Len(suffix) + 1, Len(s)) = suffix

\* d[key] = value on a dict kept as a function
DictSet(d, key, value) == (key :> value) @@ d

IsCoverageHeader(line) ==
    /\ Contains(line, hdr.Name)
    /\ Contains(line, hdr.Stmts)
    /\ Contains(line, hdr.Miss)
    /\ Contains(line, hdr.Cover)

\* lines 177-199: a table row stored into the report
InlineRow(cov, line) ==
    LET parts      == SplitWS(line)
        cov_string == parts[Len(parts)]
        value      == ParseFloat(RStrip(cov_string, {"%"}))
    IN  IF Len(parts) >= 4 /\ EndsWith(cov_string, <<"%">>) /\ value.ok
        THEN IF parts[1] = str.TOTAL
             THEN [cov EXCEPT !.total = value.val]
             ELSE [cov EXCEPT !.by_file = DictSet(@, parts[1], value.val)]
        ELSE cov

\* one iteration of the loop of lines 162-199 on the state (report, in_coverage_table)
InlineStep(st, line) ==
    IF IsCoverageHeader(line)
    THEN [st EXCEPT !.in_table = TRUE]
    ELSE IF st.in_table /\ StartsWith(Strip(line, Whitespace), <<"-">>)
    THEN st
    ELSE IF st.in_table /\ (Contains(line, str.eqeq) \/ Strip(line, Whitespace) = <<>>)
    THEN [st EXCEPT !.in_table = FALSE]
    ELSE IF st.in_table /\ Strip(line, Whitespace) # <<>>
    THEN [st EXCEPT !.cov = InlineRow(st.cov, line)]
    ELSE st

RECURSIVE InlineLoop(_, _)
InlineLoop(st, lines) ==
    IF lines = <<>> THEN st ELSE InlineLoop(InlineStep(st, Head(lines)), Tail(lines))

InlineCoverage(output) ==
    InlineLoop([cov |-> EmptyCoverage, in_table |-> FALSE], SplitLines(output)).cov

\* server.py pytest, lines 94-146: the summary parser written inline in the
\* operation; the same statements as parse_test_summary and _parse_summary
InlineTestSummary(output) ==
    LET found == FirstSummaryLine(SplitLines(output))
    IN  IF found = None
        THEN ZeroSummary
        ELSE LET counted == ParseParts(ZeroSummary, Split(SummaryBody(found[1]), str.comma))
             IN  [counted EXCEPT !.total = SumOfCounts(counted)]

-----------------------------------------------------------------------------
(* tools/coverage.py: parse_coverage_data, the parser PytestTool.handle     *)
(* calls.                                                                    *)

\* lines 66-83: one iteration of the loop on the state (table_lines, in_coverage_table)
ExtractStep(st, line) ==
    IF IsCoverageHeader(line)
    THEN [st EXCEPT !.in_table = TRUE]
    ELSE IF st.in_table /\ StartsWith(Strip(line, Whitespace), <<"-", "-">>)
    THEN st
    ELSE IF st.in_table /\ (Contains(line, str.TOTAL) \/ Strip(line, Whitespace) = <<>>)
    THEN [table    |-> IF Contains(line, str.TOTAL) THEN Append(st.table, line) ELSE st.table,
          in_table |-> FALSE]
    ELSE IF st.in_table
    THEN [st EXCEPT !.table = Append(@, line)]
    ELSE st

RECURSIVE ExtractLoop(_, _)
ExtractLoop(st, lines) ==
    IF lines = <<>> THEN st ELSE ExtractLoop(ExtractStep(st, Head(lines)), Tail(lines))

_extract_coverage_table(output) ==
    ExtractLoop([table |-> <<>>, in_table |-> FALSE], SplitLines(output)).table

\* the pair (file_path, coverage_value); ok = FALSE stands for (None, None)
_extract_coverage_entry(parts) ==
    LET coverage_str == parts[Len(parts)]
        value        == ParseFloat(RStrip(coverage_str, {"%"}))
    IN  IF Len(parts) < 4 \/ ~EndsWith(coverage_str, <<"%">>) \/ ~value.ok
        THEN [ok |-> FALSE, file_path |-> <<>>, value |-> FloatZero]
        ELSE [ok        |-> TRUE,
              file_path |-> Join(SubSeq(parts, 1, Len(parts) - 3), <<" ">>),
              value     |-> value.val]

\* CoverageStore that files the TOTAL row under by_file as well
CoverageStoreTotalAsFile(coverage_data, file_path, cov_value) ==
    IF file_path = str.TOTAL
    THEN [total |-> cov_value, by_file |-> DictSet(coverage_data.by_file, file_path, cov_value)]
    ELSE [coverage_data EXCEPT !.by_file = DictSet(@, file_path, cov_value)]

\* lines 46-50: the entry of a row stored into the report
CoverageStore(coverage_data, file_path, cov_value) ==
    IF file_path = str.TOTAL
    THEN [coverage_data EXCEPT !.total = cov_value]
    ELSE [coverage_data EXCEPT !.by_file = DictSet(@, file_path, cov_value)]

\* lines 38-50: one iteration of the loop over the table lines
CoverageLine(coverage_data, line) ==
    LET parts == SplitWS(line)
    IN  IF Strip(line, Whitespace) = <<>> \/ Len(parts) < 4
        THEN coverage_data
        ELSE LET entry == _extract_coverage_entry(parts)
             IN  IF entry.ok
                 THEN CoverageStore(coverage_data, entry.file_path, entry.value)
                 ELSE coverage_data

RECURSIVE CoverageLines(_, _)
CoverageLines(coverage_data, table_lines) ==
    IF table_lines = <<>>
    THEN coverage_data
    ELSE CoverageLines(CoverageLine(coverage_data, Head(table_lines)), Tail(table_lines))

parse_coverage_data(combined_output) ==
    CoverageLines(EmptyCoverage, _extract_coverage_table(combined_output))

-----------------------------------------------------------------------------
(* util/coverage.py: CoverageParser. Its report may hold a third key,       *)
(* failure; None stands for the key being absent.                           *)

EmptyParserData == [total |-> FloatZero, by_file |-> <<>>, failure |-> None]

_coverage_table_start(line) == IsCoverageHeader(line)

\* _table_row on the attribute _in_coverage_table: the row returned, if any,
\* and the attribute afterwards
_table_row(in_table, line) ==
    IF ~in_table
    THEN [row |-> None, in_table |-> _coverage_table_start(line)]
    ELSE IF StartsWith(Strip(line, Whitespace), <<"-", "-">>)
    THEN [row |-> None, in_table |-> TRUE]
    ELSE IF Contains(line, str.TOTAL)
    THEN [row |-> Some(SplitWS(line)), in_table |-> TRUE]
    ELSE IF Strip(line, Whitespace) = <<>>
    THEN [row |-> None, in_table |-> FALSE]
    ELSE [row |-> Some(SplitWS(line)), in_table |-> TRUE]

\* the loop of the property table on the state (table_rows, _in_coverage_table)
RECURSIVE TableLoop(_, _)
TableLoop(st, lines) ==
    IF lines = <<>>
    THEN st
    ELSE LET r == _table_row(st.in_table, Head(lines))
         IN  TableLoop([rows     |-> IF r.row # None /\ r.row[1] # <<>>
                                     THEN Append(st.rows, r.row[1])
                                     ELSE st.rows,
                        in_table |-> r.in_table],
                       Tail(lines))

\* the property table of a parser whose attribute _in_coverage_table is in_table
ParserTable(combined_output, in_table) ==
    TableLoop([rows |-> <<>>, in_table |-> in_table], SplitLines(combined_output))

\* _table_entry that names the entry by the first field of the row
_table_entry_first_field(row) ==
    LET value == ParseFloat(RStrip(row[Len(row)], {"%"}))
    IN  IF Len(row) < 4 \/ ~EndsWith(row[Len(row)], <<"%">>) \/ ~value.ok
        THEN [ok |-> FALSE, file_path |-> <<>>, value |-> FloatZero]
        ELSE [ok        |-> TRUE,
              file_path |-> row[1],
              value     |-> value.val]

\* the pair (file_path, coverage_value); ok = FALSE stands for None
_table_entry(row) ==
    LET value == ParseFloat(RStrip(row[Len(row)], {"%"}))
    IN  IF Len(row) < 4 \/ ~EndsWith(row[Len(row)], <<"%">>) \/ ~value.ok
        THEN [ok |-> FALSE, file_path |-> <<>>, value |-> FloatZero]
        ELSE [ok        |-> TRUE,
              file_path |-> Join(SubSeq(row, 1, Len(row) - 3), <<" ">>),
              value     |-> value.val]

_parse_table_row(coverage_data, row) ==
    LET result == _table_entry(row)
    IN  IF ~result.ok
        THEN coverage_data
        ELSE IF result.file_path = str.TOTAL
        THEN [coverage_data EXCEPT !.total = result.value]
        ELSE IF StartsWith(result.file_path, str.FAIL)
        THEN [coverage_data EXCEPT !.failure = Some(result.file_path)]
        ELSE [coverage_data EXCEPT !.by_file = DictSet(@, result.file_path, result.value)]

RECURSIVE ParseRows(_, _)
ParseRows(coverage_data, rows) ==
    IF rows = <<>>
    THEN coverage_data
    ELSE ParseRows(_parse_table_row(coverage_data, Head(rows)), Tail(rows))

\* the property data of a parser built on combined_output
ParserData(combined_output) ==
    ParseRows(EmptyParserData, ParserTable(combined_output, FALSE).rows)

-----------------------------------------------------------------------------
(* server.py: the envelopes the operations return. *)

\* FailureEnvelope with the error left out
FailureEnvelopeWithoutError(message) == [success |-> FALSE, data |-> None, error |-> None]

\* the dict literals {"success": False, "data": None, "error": <message>}
FailureEnvelope(message) == [success |-> FALSE, data |-> None, error |-> Some(message)]

\* SuccessEnvelope with the success flag not set
SuccessEnvelopeFlagOff(data) == [success |-> FALSE, data |-> Some(data), error |-> None]

\* the dict literals {"success": True, "data": <data>, "error": None}
SuccessEnvelope(data) == [success |-> TRUE, data |-> Some(data), error |-> None]

\* PathNotFoundMessage written with the pathlib.Path instead of the caller's string
PathNotFoundMessageNormalized(p) == msg.path_pre \o PathStr(PathOf(p)) \o msg.path_post

\* f"Path '{path}' does not exist" (lines 61, 280, 403)
PathNotFoundMessage(p) == msg.path_pre \o p \o msg.path_post

\* the tool name written in the f-strings of each operation
ToolStr(t) ==
    CASE t = "pytest" -> str.pytest
      [] t = "mypy"   -> str.mypy
      [] t = "flake8" -> str.flake8

\* FailedToRunMessage with the exception text left out
FailedToRunMessageWithoutText(t, text) == msg.failed_to_run \o ToolStr(t) \o msg.colon

\* f"Failed to run <tool>: {str(e)}" (lines 234, 364, 459)
FailedToRunMessage(t, text) == msg.failed_to_run \o ToolStr(t) \o msg.colon \o text

\* f"<tool> failed: {stderr_output}" (lines 358, 453)
ToolFailedMessage(t, stderr_output) == ToolStr(t) \o msg.failed \o stderr_output

\* the except clauses of the operations: "except Exception"
CaughtByOperation(e) == e.kind = "Exception"

\* bytes.decode(): a byte that is not UTF-8 raises UnicodeDecodeError
InvalidByte == "0xff"

Decodable(b) == \A i \in 1..Len(b) : b[i] # InvalidByte

\* str(e) of the UnicodeDecodeError that b.decode() raises
DecodeErrorText(b) ==
    LET pos == CHOOSE i \in 1..Len(b) :
                   b[i] = InvalidByte /\ \A j \in 1..(i - 1) : b[j] # InvalidByte
    IN  msg.decode_pre \o IntToStr(pos - 1) \o msg.decode_post

\* stdout_output + "\n" + stderr_output
CombinedOutput(stdout_output, stderr_output) == stdout_output \o str.nl \o stderr_output

\* PytestMessage that takes every exit code up to 0 for a pass
PytestMessageNonPositive(returncode) ==
    IF returncode <= 0 THEN msg.all_passed ELSE msg.some_failed

\* lines 204-229
PytestMessage(returncode) == IF returncode = 0 THEN msg.all_passed ELSE msg.some_failed

\* PytestEnvelope that reports no coverage when the parser found no table
PytestEnvelopeNullWhenEmpty(p, coverage, returncode, stdout_output, stderr_output) ==
    LET combined_output == CombinedOutput(stdout_output, stderr_output)
    IN  SuccessEnvelope(
            [message      |-> PytestMessage(returncode),
             output       |-> combined_output,
             project_path |-> p,
             test_summary |-> InlineTestSummary(combined_output),
             coverage     |-> IF coverage /\ InlineCoverage(combined_output) # EmptyCoverage
                              THEN Some(InlineCoverage(combined_output))
                              ELSE None])

\* server.py pytest, lines 92-229
PytestEnvelope(p, coverage, returncode, stdout_output, stderr_output) ==
    LET combined_output == CombinedOutput(stdout_output, stderr_output)
    IN  SuccessEnvelope(
            [message      |-> PytestMessage(returncode),
             output       |-> combined_output,
             project_path |-> p,
             test_summary |-> InlineTestSummary(combined_output),
             coverage     |-> IF coverage
                              THEN Some(InlineCoverage(combined_output))
                              ELSE None])

\* tools/pytest.py PytestTool.handle, lines 59-92: the value returned once the
\* child has exited and both streams are decoded
PytestTool_handle(p, coverage, returncode, stdout_output, stderr_output) ==
    LET combined_output == CombinedOutput(stdout_output, stderr_output)
    IN  [success |-> TRUE,
         data    |-> Some([message      |-> PytestMessage(returncode),
                           output       |-> combined_output,
                           project_path |-> p,
                           test_summary |-> parse_test_summary(combined_output),
                           coverage     |-> IF coverage
                                            THEN Some(parse_coverage_data(combined_output))
                                            ELSE None]),
         error   |-> None]

\* number of elements of lines that contain ': error:' or ': note:' (lines 331-333)
MypyIssuesCount(stdout_output) ==
    LET lines == SplitLines(Strip(stdout_output, Whitespace))
    IN  Cardinality({i \in 1..Len(lines) :
                        \/ Contains(lines[i], str.error_marker)
                        \/ Contains(lines[i], str.note_marker)})

\* lines 427-428
Flake8IssuesCount(stdout_output) ==
    IF Strip(stdout_output, Whitespace) # <<>>
    THEN Len(SplitLines(Strip(stdout_output, Whitespace)))
    ELSE 0

\* HasIssues off by one
HasIssuesOffByOne(issues_count) == issues_count > 1

\* has_issues = issues_count > 0 (lines 334, 429)
HasIssues(issues_count) == issues_count > 0

\* the message of a success envelope (lines 340-341, 435-436)
IssuesMessage(t, issues_count) ==
    IF ~HasIssues(issues_count)
    THEN msg.no_issues
    ELSE msg.found \o IntToStr(issues_count)
             \o (IF t = "mypy" THEN msg.type_issues ELSE msg.issues)

\* msg_output (lines 336-337, 431-432)
MsgOutput(combined_output) ==
    IF Strip(combined_output, Whitespace) # <<>>
    THEN Strip(combined_output, Whitespace)
    ELSE msg.no_issues

\* RoutineExit written as an upper bound
RoutineExitAtMostOne(returncode) == returncode <= 1

\* the exit codes for which mypy and flake8 return a success envelope
RoutineExit(returncode) == returncode = 0 \/ returncode = 1

\* server.py mypy, lines 329-359, and flake8, lines 425-454
LinterEnvelope(t, p, returncode, stdout_output, stderr_output) ==
    LET issues_count == IF t = "mypy"
                        THEN MypyIssuesCount(stdout_output)
                        ELSE Flake8IssuesCount(stdout_output)
    IN  IF RoutineExit(returncode)
        THEN SuccessEnvelope(
                 [message      |-> IssuesMessage(t, issues_count),
                  output       |-> MsgOutput(CombinedOutput(stdout_output, stderr_output)),
                  project_path |-> p,
                  issues_count |-> issues_count,
                  has_issues   |-> HasIssues(issues_count)])
        ELSE FailureEnvelope(ToolFailedMessage(t, stderr_output))

-----------------------------------------------------------------------------
(* tools/base.py: Tool.run around the handle of a tool class.               *)

\* names of the tool classes and of the exception types raised inside handle
cls ==
    [PytestTool |-> <<"P", "y", "t", "e", "s", "t", "T", "o", "o", "l">>,
     Tool |-> <<"T", "o", "o", "l">>,
     traceback |->
        <<"T", "r", "a", "c", "e", "b", "a", "c", "k", " ", "(", "m", "o", "s", "t", " ", "r", "e", "c", "e", "n", "t", " ", "c", "a", "l", "l", " ", "l", "a", "s", "t", ")", ":", "\n">>,
     RuntimeError |-> <<"R", "u", "n", "t", "i", "m", "e", "E", "r", "r", "o", "r">>,
     CancelledError |-> <<"a", "s", "y", "n", "c", "i", "o", ".", "e", "x", "c", "e", "p", "t", "i", "o", "n", "s", ".", "C", "a", "n", "c", "e", "l", "l", "e", "d", "E", "r", "r", "o", "r">>,
     FileNotFoundError |->
        <<"F", "i", "l", "e", "N", "o", "t", "F", "o", "u", "n", "d", "E", "r", "r", "o", "r">>,
     NotImplementedError |->
        <<"N", "o", "t", "I", "m", "p", "l", "e", "m", "e", "n", "t", "e", "d", "E", "r", "r", "o", "r">>,
     UnicodeDecodeError |->
        <<"U", "n", "i", "c", "o", "d", "e", "D", "e", "c", "o", "d", "e", "E", "r", "r", "o", "r">>,
     TypeError |-> <<"T", "y", "p", "e", "E", "r", "r", "o", "r">>,
     run_pytest |-> <<"r", "u", "n", "_", "p", "y", "t", "e", "s", "t">>,
     missing_args |->
        <<"T", "o", "o", "l", ".", "_", "_", "i", "n", "i", "t", "_", "_", "(", ")", " ", "m", "i", "s", "s", "i", "n", "g", " ", "2", " ", "r", "e", "q", "u", "i", "r", "e", "d", " ", "p", "o", "s", "i", "t", "i", "o", "n", "a", "l", " ", "a", "r", "g", "u", "m", "e", "n", "t", "s", ":", " ", "'", "c", "t", "x", "'", " ", "a", "n", "d", " ", "'", "p", "a", "t", "h", "'">>]

\* s.replace(old, new) for a non-empty old: occurrences are replaced from the left
RECURSIVE Replace(_, _, _)
Replace(s, old, new) ==
    IF Len(s) < Len(old)
    THEN s
    ELSE IF SubSeq(s, 1, Len(old)) = old
    THEN new \o Replace(SubSeq(s, Len(old) + 1, Len(s)), old, new)
    ELSE <<Head(s)>> \o Replace(Tail(s), old, new)

\* self.__class__.__name__.lower().replace("tool", "")
RunToolName(class_name) == Replace(LowerStr(class_name), <<"t", "o", "o", "l">>, <<>>)

\* traceback.format_exc() inside the except clause: the heading and the last
\* line, '<type>: <text>' or '<type>' for an empty text; the lines of the stack
\* frames between them are left out
Traceback(e) ==
    cls.traceback \o e.type \o (IF e.text = <<>> THEN <<>> ELSE msg.colon \o e.text) \o str.nl

\* the dictionary returned by the except clause of run
RunFailure(class_name, e) ==
    [success |-> FALSE,
     data    |-> None,
     error   |-> Some(msg.failed_to_run \o RunToolName(class_name) \o msg.colon \o e.text
                      \o str.nl \o Traceback(e))]

\* CaughtByRun of a clause 'except Exception'
CaughtByRunExceptionOnly(e) == e.kind = "Exception"

\* 'except BaseException' catches every exception
CaughtByRun(e) == e.kind \in {"Exception", "BaseException"}

\* tools/base.py Tool.command: [self.tool_path, *self.config_args, *(args or [])]
command(tool_path, config_args, args) ==
    <<tool_path>> \o config_args \o (IF Truthy(args) THEN args[1] ELSE <<>>)

\* tools/pytest.py PytestTool.handle, lines 39-50: the command
PytestTool_cmd(opts) ==
    <<str.pytest>>
    \o (IF opts.verbose THEN <<flag.v>> ELSE <<>>)
    \o (IF opts.coverage
        THEN (IF Truthy(opts.coverage_source)
              THEN <<flag.cov_eq \o opts.coverage_source[1]>>
              ELSE <<flag.cov>>) \o <<flag.cov_report>>
        ELSE <<>>)
    \o (IF Truthy(opts.args) THEN opts.args[1] ELSE <<>>)

-----------------------------------------------------------------------------
(* Inputs of the model: what callers pass, what the file system answers,    *)
(* what a child process prints, what an exception says.                     *)

\* values callers pass, texts a child prints, and the pieces of a generated summary line
sample ==
    [path_abs |-> <<"/", "p", "/", "a">>,
     path_rel |-> <<"q", "/">>,
     path_tests |-> <<"t", "e", "s", "t", "s">>,
     arg_x |-> <<"-", "x">>,
     arg_src |-> <<"s", "r", "c">>,
     arg_excl |-> <<"b", "/">>,
     arg_tests |-> <<"t", "e", "s", "t", "s", "/">>,
     command_failed |-> <<"C", "o", "m", "m", "a", "n", "d", " ", "f", "a", "i", "l", "e", "d">>,
     line_error |-> <<"a", ":", " ", "e", "r", "r", "o", "r", ":", " ", "x">>,
     line_note |-> <<"a", ":", " ", "n", "o", "t", "e", ":", " ", "y">>,
     line_plain |-> <<"o", "k">>,
     line_summary |->
        <<"=", " ", "1", " ", "p", "a", "s", "s", "e", "d", ",", " ", "1", " ", "f", "a",
          "i", "l", "e", "d", " ", "i", "n", " ", "1", "s", " ", "=">>,
     warn |-> <<"w", "a", "r", "n", "\n">>,
     dur_fast |-> <<"0", ".", "0", "1">>,
     dur_slow |-> <<"1", ".", "5">>,
     delim |-> <<"=", "=", "=">>,
     sep |-> <<",", " ">>,
     s |-> <<"s">>]

\* lines of a coverage table
table ==
    [header |->
        <<"N", "a", "m", "e", " ", " ", "S", "t", "m", "t", "s", " ", " ", "M", "i", "s",
          "s", " ", " ", "C", "o", "v", "e", "r">>,
     dashes |-> <<"-", "-", "-", "-", "-", "-">>,
     banner |-> <<"=", "=", "=", " ", "c", "o", "v", "e", "r", "a", "g", "e", " ", "=", "=", "=">>,
     name_a |-> <<"p", "k", "g", "/", "a", ".", "p", "y">>,
     name_b |-> <<"b", ".", "p", "y">>,
     stmts |-> <<"1", "0">>,
     miss |-> <<"2">>,
     gap |-> <<" ", " ">>,
     invalid_row |->
        <<"T", "h", "i", "s", " ", "l", "i", "n", "e", " ", "h", "a", "s", " ", "n", "o",
          " ", "v", "a", "l", "i", "d", " ", "c", "o", "v", "e", "r", "a", "g", "e", " ",
          "d", "a", "t", "a">>,
     invalid_total |->
        <<"T", "O", "T", "A", "L", " ", " ", "I", "N", "V", "A", "L", "I", "D", " ", " ",
          "D", "A", "T", "A">>,
     name_totals |-> <<"T", "O", "T", "A", "L", "S", ".", "p", "y">>,
     name_spaced |-> <<"m", "y", " ", "f", "i", "l", "e", ".", "p", "y">>,
     sentinel |->
        <<"R", "e", "q", "u", "i", "r", "e", "d", " ", "t", "e", "s", "t", " ", "c", "o", "v", "e", "r", "a", "g", "e">>,
     fail_row |->
        <<"F", "A", "I", "L", " ", "R", "e", "q", "u", "i", "r", "e", "d", " ", "t", "e", "s", "t", " ", "c", "o", "v", "e", "r", "a", "g", "e", " ", "o", "f", " ", "9", "5", "%", " ", "n", "o", "t", " ", "r", "e", "a", "c", "h", "e", "d", ".", " ", "T", "o", "t", "a", "l", " ", "c", "o", "v", "e", "r", "a", "g", "e", ":", " ", "8", "0", ".", "0", "0", "%">>]

\* lines of the texts given to the summary parser
free ==
    [plain |-> <<"T", "e", "s", "t", " ", "o", "u", "t", "p", "u", "t">>,
     no_tests |->
        <<"=", "=", "=", " ", "n", "o", " ", "t", "e", "s", "t", "s", " ", "r", "a", "n",
          " ", "i", "n", " ", "0", ".", "1", "s", " ", "=", "=", "=">>,
     bare |->
        <<"1", " ", "x", "p", "a", "s", "s", "e", "d", " ", "i", "n", " ", "0", ".", "0",
          "1", "s">>,
     delimited |->
        <<"=", "=", "=", " ", "1", " ", "x", "p", "a", "s", "s", "e", "d", " ", "i", "n",
          " ", "0", ".", "0", "1", "s", " ", "=", "=", "=">>,
     assert |->
        <<"a", "s", "s", "e", "r", "t", " ", "p", "a", "s", "s", "e", "d", " ", "=", "=",
          " ", "1">>,
     negative |-> <<"=", " ", "-", "1", " ", "f", "a", "i", "l", "e", "d", " ", "=">>,
     bad_number |->
        <<"=", " ", "x", " ", "p", "a", "s", "s", "e", "d", ",", " ", "2", " ", "f", "a",
          "i", "l", "e", "d", " ", "=">>,
     passed |->
        <<"=", "=", "=", " ", "2", " ", "p", "a", "s", "s", "e", "d", " ", "i", "n", " ",
          "0", ".", "1", "s", " ", "=", "=", "=">>,
     total |->
        <<"=", " ", "1", " ", "p", "a", "s", "s", "e", "d", ",", " ", "9", " ", "t", "o",
          "t", "a", "l", " ", "=">>]

Paths == {sample.path_abs, sample.path_rel, sample.path_tests}

ArgsChoices == {None, Some(<<sample.arg_x>>), Some(<<sample.arg_x, sample.arg_src>>)}

ExcludeChoices ==
    {None, Some(<<>>), Some(<<sample.arg_excl>>), Some(<<sample.arg_excl, sample.arg_tests>>)}

SourceChoices == {None, Some(sample.arg_src)}

LineLengthChoices == {None, Some(79)}

ExceptionTexts == {<<>>, sample.command_failed}

\* Exception and its subclasses; BaseException that is not an Exception
\* (asyncio.CancelledError, KeyboardInterrupt)
ExceptionKinds == {"Exception", "BaseException"}

ExitCodes == {-9} \cup (0..MaxExitCode)

\* each line followed by its line end
RECURSIVE Unlines(_)
Unlines(lines) == IF lines = <<>> THEN <<>> ELSE Head(lines) \o str.nl \o Unlines(Tail(lines))

SeqsUpTo(S, n) == UNION {[1..k -> S] : k \in 0..n}

\* a run with coverage: the summary line, the banner and the table 'pkg/a.py 10 2 80%',
\* 'TOTAL 10 2 80%'
TableOutput ==
    Unlines(<<free.passed, table.banner, table.header, table.dashes,
              table.name_a \o table.gap \o table.stmts \o table.gap \o table.miss
                  \o table.gap \o <<"8", "0", "%">>,
              str.TOTAL \o table.gap \o table.stmts \o table.gap \o table.miss
                  \o table.gap \o <<"8", "0", "%">>>>)

\* a run with coverage whose table holds no row that can be read
InvalidTableOutput ==
    Unlines(<<free.passed, table.banner, table.header, table.dashes,
              table.invalid_row, table.invalid_total>>)

\* a run with coverage under a threshold that is missed: one test failed, and
\* the row of the failed threshold follows the TOTAL row
FailOutput ==
    Unlines(<<sample.line_summary, table.header, table.dashes,
              table.name_a \o table.gap \o table.stmts \o table.gap \o table.miss
                  \o table.gap \o <<"8", "0", "%">>,
              str.TOTAL \o table.gap \o table.stmts \o table.gap \o table.miss
                  \o table.gap \o <<"8", "0", "%">>,
              table.fail_row>>)

OutputLines == {<<>>, sample.line_error, sample.line_note, sample.line_plain, sample.line_summary}

StdoutBytes ==
    {Unlines(ls) : ls \in SeqsUpTo(OutputLines, MaxLines)} \cup {TableOutput, InvalidTableOutput, FailOutput}

StderrBytes == {<<>>, sample.warn, <<"e", InvalidByte>>}

DefaultOpts ==
    [args |-> None, verbose |-> FALSE, coverage |-> FALSE, coverage_source |-> None,
     disallow_untyped_defs |-> FALSE, disallow_incomplete_defs |-> FALSE,
     exclude |-> None, max_line_length |-> None]

DefaultFs == [config_in_path |-> FALSE, config_in_parent |-> FALSE, tests_dir |-> "absent"]

\* tests_dir is what os.path.isdir(os.path.join(path, "tests")) does: it returns
\* True ("dir") or False ("absent"), or raises the error named
FsChoices ==
    [config_in_path : BOOLEAN, config_in_parent : BOOLEAN,
     tests_dir : {"dir", "absent", "PermissionError", "FileNotFoundError"}]

(* Inputs of the summary parser. *)

Counts == (0..MaxCount) \cup {BigCount}

\* the fragments "<n> <keyword>" of the counts that are present, in keyword order
RECURSIVE Fragments(_, _)
Fragments(counts, k) ==
    IF k > Len(Keywords)
    THEN <<>>
    ELSE (IF counts[k] = None THEN <<>> ELSE <<IntToStr(counts[k][1]) \o <<" ">> \o Keywords[k]>>)
         \o Fragments(counts, k + 1)

\* the summary line the test runner prints for the counts and the duration
SummaryLine(counts, duration) ==
    sample.delim \o <<" ">> \o Join(Fragments(counts, 1), sample.sep)
        \o str.in \o duration \o sample.s \o <<" ">> \o sample.delim

\* no fragment present; a present count n is Some(n)
NoCounts == [k \in 1..5 |-> None]

FreeLines ==
    {<<>>, free.plain, free.no_tests, free.bare, free.delimited, free.assert,
     free.negative, free.bad_number, free.passed, free.total}

SummaryInputs ==
    {[kind |-> "line", counts |-> c, text |-> SummaryLine(c, d)] :
        c \in [1..5 -> {None} \cup {Some(n) : n \in Counts}] \ {NoCounts}, d \in {sample.dur_fast, sample.dur_slow}}
    \cup
    {[kind |-> "text", counts |-> NoCounts, text |-> Join(ls, str.nl)] :
        ls \in SeqsUpTo(FreeLines, MaxLines)}

NoSummaryInput == [kind |-> "none", counts |-> NoCounts, text |-> <<>>]

(* Inputs of the coverage parsers. *)

\* percentages as a row prints them, with the value float() reads
Percentages ==
    {[text |-> <<"8", "0">>, val |-> Finite(80, 0)],
     [text |-> <<"6", "2", ".", "5">>, val |-> Finite(625, 1)]}

FileNames == {table.name_a, table.name_b}

\* the row '<name>  <stmts>  <miss>  <pct>%'
RowLine(name, pct) ==
    name \o table.gap \o table.stmts \o table.gap \o table.miss \o table.gap
        \o pct.text \o <<"%">>

RowLines(rows) == [i \in 1..Len(rows) |-> RowLine(rows[i].name, rows[i].pct)]

\* the output of a run with coverage: lines before the table, the header, the
\* separator if any, the file rows, the TOTAL row and the lines after it
TableText(before, separator, rows, total, after) ==
    Unlines(before \o <<table.header>> \o separator \o RowLines(rows)
            \o <<RowLine(str.TOTAL, total)>> \o after)

TableInputs ==
    {[kind |-> "table", rows |-> rows, total |-> total,
      text |-> TableText(before, separator, rows, total, after)] :
        before \in {<<>>, <<free.passed, table.banner>>},
        separator \in {<<>>, <<table.dashes>>},
        rows \in SeqsUpTo([name : FileNames, pct : Percentages], MaxRows),
        total \in Percentages,
        after \in {<<>>, <<free.passed>>, <<<<>>, free.passed>>}}

\* percentages outside the table of a healthy run: above 100, and not a number
OverRange == [text |-> <<"1", "5", "0">>, val |-> Finite(150, 0)]

NotANumber == [text |-> <<"x">>, val |-> FloatZero]

EightyPct == [text |-> <<"8", "0">>, val |-> Finite(80, 0)]

\* lines a report may hold after its header
ReportLines ==
    {RowLine(table.name_a, EightyPct),
     RowLine(str.TOTAL, [text |-> <<"6", "2", ".", "5">>, val |-> Finite(625, 1)]),
     RowLine(table.name_totals, EightyPct),
     RowLine(table.name_spaced, EightyPct),
     RowLine(table.name_b, OverRange),
     RowLine(table.name_b, NotANumber),
     table.invalid_total,
     table.fail_row,
     <<>>}

\* reports whose lines after the header are in any order
ReportInputs ==
    {[kind |-> "report", rows |-> <<>>, total |-> EightyPct,
      text |-> Unlines(<<table.header>> \o ls)] : ls \in SeqsUpTo(ReportLines, MaxReportLines)}

\* last fields of a row, with the value float() reads where there is one
LastFields ==
    {[text |-> <<"8", "0", "%">>, val |-> Some(Finite(80, 0))],
     [text |-> <<"6", "2", ".", "5", "%">>, val |-> Some(Finite(625, 1))],
     [text |-> <<"8", "0", "%", "%">>, val |-> Some(Finite(80, 0))],
     [text |-> <<"x", "%">>, val |-> None],
     [text |-> <<"%">>, val |-> None],
     [text |-> <<"8", "0">>, val |-> None]}

\* one line of a table: the words of a name, the two counts and a last field,
\* two blanks apart; rows holds the entry the line stands for, if it stands for one
RowInputs ==
    {[kind |-> "row",
      rows |-> IF words # <<>> /\ last.val # None
               THEN <<[name |-> Join(words, <<" ">>), pct |-> [text |-> last.text, val |-> last.val[1]]]>>
               ELSE <<>>,
      total |-> EightyPct,
      text |-> Join(words \o <<table.stmts, table.miss, last.text>>, table.gap)] :
        words \in SeqsUpTo({table.name_b, <<"m", "y">>}, MaxNameWords), last \in LastFields}
    \cup {[kind |-> "row", rows |-> <<>>, total |-> EightyPct, text |-> <<>>]}

NoCoverageInput == [kind |-> "none", rows |-> <<>>, total |-> [text |-> <<>>, val |-> FloatZero], text |-> <<>>]

NoCoverageOut ==
    [tools |-> None, util |-> None, inline |-> None, tools_entry |-> None, util_entry |-> None]

\* util/coverage.py: the attributes of the class CoverageParser and of its
\* instances. dict is the attribute _in_coverage_table of the instance, None
\* while the instance has none of its own.
Invocations == 1..MaxInvocations

NoInstance ==
    [state |-> "none", dict |-> None, combined_output |-> <<>>, lines |-> <<>>,
     table_rows |-> <<>>, data |-> None]

\* line 13: the class attribute _in_coverage_table = False
NoParsers == [in_coverage_table |-> FALSE, instances |-> [i \in Invocations |-> NoInstance]]

\* the outputs given to the parsers of concurrent invocations: a table that
\* ends with its TOTAL row, a table with a row before its header, and a table
\* that an empty line ends
ConcurrentOutputs ==
    {Unlines(<<table.header, RowLine(table.name_a, EightyPct), RowLine(str.TOTAL, EightyPct)>>),
     Unlines(<<RowLine(table.name_b, EightyPct), table.header, RowLine(str.TOTAL, EightyPct)>>),
     Unlines(<<table.header, RowLine(table.name_a, EightyPct), <<>>, RowLine(table.name_b, EightyPct)>>)}

-----------------------------------------------------------------------------
(* State. *)

VARIABLES
    pc,           \* where the invocation is: "idle", "validating", "building",
                  \* "spawning", "communicating", "decoding", "returned", "raised"
    tool,         \* the operation invoked: "pytest", "mypy", "flake8"; "" when idle
    path,         \* the path argument
    path_exists,  \* what pathlib.Path(path).exists() answers
    opts,         \* the other arguments of the call
    fs,           \* what the file system answers while mypy's command is built
    cmd,          \* the command built for the child process
    spawned,      \* number of child processes spawned by the invocation
    child,        \* what the child left: exit code and the bytes of both streams
    exc,          \* the exception raised inside the try block, if any
    result,       \* the envelope returned to the caller, if any
    summary_in,   \* the input given to the summary parsers
    summary_out,  \* what the calls of parse_test_summary returned, in order
    inline_out,   \* what the runs of the parser inlined in the pytest operation found
    cov_in,       \* the input given to the coverage parsers
    cov_out,      \* what each coverage parser returned for it, if it was run
    parsers       \* the class CoverageParser and the instances of concurrent invocations

server_vars == <<pc, tool, path, path_exists, opts, fs, cmd, spawned, child, exc, result>>

summary_vars == <<summary_in, summary_out, inline_out>>

coverage_vars == <<cov_in, cov_out, parsers>>

vars == <<pc, tool, path, path_exists, opts, fs, cmd, spawned, child, exc, result,
          summary_in, summary_out, inline_out, cov_in, cov_out, parsers>>

Idle ==
    /\ pc = "idle"
    /\ tool = ""
    /\ path = <<>>
    /\ path_exists = FALSE
    /\ opts = DefaultOpts
    /\ fs = DefaultFs
    /\ cmd = <<>>
    /\ spawned = 0
    /\ child = None
    /\ exc = None
    /\ result = None

Init ==
    /\ Idle
    /\ summary_in = NoSummaryInput
    /\ summary_out = None
    /\ inline_out = None
    /\ cov_in = NoCoverageInput
    /\ cov_out = NoCoverageOut
    /\ parsers = NoParsers

-----------------------------------------------------------------------------
(* The operations of server.py, one action per step between two awaits. *)

\* a caller invokes an operation
Call(t, p, e, o, f) ==
    /\ pc' = "validating"
    /\ tool' = t
    /\ path' = p
    /\ path_exists' = e
    /\ opts' = o
    /\ fs' = f
    /\ UNCHANGED <<cmd, spawned, child, exc, result, summary_in, summary_out, inline_out, cov_in, cov_out, parsers>>

CallPytest ==
    /\ pc = "idle"
    /\ \E p \in Paths, e \in BOOLEAN, a \in ArgsChoices, v \in BOOLEAN, c \in BOOLEAN,
       s \in SourceChoices :
        Call("pytest", p, e,
             [DefaultOpts EXCEPT !.args = a, !.verbose = v, !.coverage = c,
                                 !.coverage_source = s],
             DefaultFs)

CallMypy ==
    /\ pc = "idle"
    /\ \E p \in Paths, e \in BOOLEAN, a \in ArgsChoices, u \in BOOLEAN, i \in BOOLEAN,
       x \in ExcludeChoices, f \in FsChoices :
        Call("mypy", p, e,
             [DefaultOpts EXCEPT !.args = a, !.disallow_untyped_defs = u,
                                 !.disallow_incomplete_defs = i, !.exclude = x],
             f)

CallFlake8 ==
    /\ pc = "idle"
    /\ \E p \in Paths, e \in BOOLEAN, a \in ArgsChoices, m \in LineLengthChoices :
        Call("flake8", p, e,
             [DefaultOpts EXCEPT !.args = a, !.max_line_length = m],
             DefaultFs)

\* return of an envelope
Return(envelope) ==
    /\ pc' = "returned"
    /\ result' = Some(envelope)

\* an exception e leaves the try block: the except clause returns the failure
\* envelope, or e propagates to the caller
Raise(e) ==
    /\ exc' = Some(e)
    /\ IF CaughtByOperation(e)
       THEN Return(FailureEnvelope(FailedToRunMessage(tool, e.text)))
       ELSE pc' = "raised" /\ result' = None

\* Validate that goes on to build the command for a missing path as well
ValidateSkipsCheck ==
    /\ pc = "validating"
    /\ pc' = "building"
    /\ UNCHANGED <<tool, path, path_exists, opts, fs, cmd, spawned, child, exc, result,
                   summary_in, summary_out, inline_out, cov_in, cov_out, parsers>>

\* lines 55-62, 274-281, 397-404: the path is validated before the try block
Validate ==
    /\ pc = "validating"
    /\ IF path_exists
       THEN pc' = "building" /\ result' = result
       ELSE Return(FailureEnvelope(PathNotFoundMessage(path)))
    /\ UNCHANGED <<tool, path, path_exists, opts, fs, cmd, spawned, child, exc,
                   summary_in, summary_out, inline_out, cov_in, cov_out, parsers>>

BuildCmd ==
    CASE tool = "pytest" -> PytestCmd(opts)
      [] tool = "mypy"   -> MypyCmd(path, opts, fs)
      [] tool = "flake8" -> Flake8Cmd(path, opts)

\* the command is built
Build ==
    /\ pc = "building"
    /\ pc' = "spawning"
    /\ cmd' = BuildCmd
    /\ UNCHANGED <<tool, path, path_exists, opts, fs, spawned, child, exc, result,
                   summary_in, summary_out, inline_out, cov_in, cov_out, parsers>>

\* a statement that builds the command raises
BuildRaises ==
    /\ pc = "building"
    /\ \E text \in ExceptionTexts : Raise([kind |-> "Exception", text |-> text])
    /\ UNCHANGED <<tool, path, path_exists, opts, fs, cmd, spawned, child,
                   summary_in, summary_out, inline_out, cov_in, cov_out, parsers>>

\* await asyncio.create_subprocess_exec(*cmd, ...) returns the process; the
\* command is handed to the child, and of the arguments only path and coverage
\* are read again
Spawn ==
    /\ pc = "spawning"
    /\ pc' = "communicating"
    /\ spawned' = spawned + 1
    /\ cmd' = <<>>
    /\ opts' = [DefaultOpts EXCEPT !.coverage = opts.coverage]
    /\ fs' = DefaultFs
    /\ UNCHANGED <<tool, path, path_exists, child, exc, result, summary_in, summary_out, inline_out, cov_in, cov_out, parsers>>

\* await asyncio.create_subprocess_exec(*cmd, ...) raises
SpawnRaises ==
    /\ pc = "spawning"
    /\ \E kind \in ExceptionKinds, text \in ExceptionTexts :
           Raise([kind |-> kind, text |-> text])
    /\ UNCHANGED <<tool, path, path_exists, opts, fs, cmd, spawned, child,
                   summary_in, summary_out, inline_out, cov_in, cov_out, parsers>>

\* await process.communicate() returns: the child has exited
Communicate ==
    /\ pc = "communicating"
    /\ pc' = "decoding"
    /\ \E rc \in ExitCodes, out \in StdoutBytes, err \in StderrBytes :
           child' = Some([returncode |-> rc, stdout |-> out, stderr |-> err])
    /\ UNCHANGED <<tool, path, path_exists, opts, fs, cmd, spawned, exc, result,
                   summary_in, summary_out, inline_out, cov_in, cov_out, parsers>>

\* await process.communicate() raises
CommunicateRaises ==
    /\ pc = "communicating"
    /\ \E kind \in ExceptionKinds, text \in ExceptionTexts :
           Raise([kind |-> kind, text |-> text])
    /\ UNCHANGED <<tool, path, path_exists, opts, fs, cmd, spawned, child,
                   summary_in, summary_out, inline_out, cov_in, cov_out, parsers>>

\* the envelope of the statements after the streams are decoded
Envelope(rc, stdout_output, stderr_output) ==
    IF tool = "pytest"
    THEN PytestEnvelope(path, opts.coverage, rc, stdout_output, stderr_output)
    ELSE LinterEnvelope(tool, path, rc, stdout_output, stderr_output)

\* stderr.decode(), stdout.decode(), the parsing of the output and the return
Finish ==
    /\ pc = "decoding"
    /\ LET c == child[1]
       IN  IF ~Decodable(c.stderr)
           THEN Raise([kind |-> "Exception", text |-> DecodeErrorText(c.stderr)])
           ELSE IF ~Decodable(c.stdout)
           THEN Raise([kind |-> "Exception", text |-> DecodeErrorText(c.stdout)])
           ELSE Return(Envelope(c.returncode, c.stdout, c.stderr)) /\ exc' = exc
    /\ UNCHANGED <<tool, path, path_exists, opts, fs, cmd, spawned, child,
                   summary_in, summary_out, inline_out, cov_in, cov_out, parsers>>

Next ==
    \/ CallPytest
    \/ CallMypy
    \/ CallFlake8
    \/ Validate
    \/ Build
    \/ BuildRaises
    \/ Spawn
    \/ SpawnRaises
    \/ Communicate
    \/ CommunicateRaises
    \/ Finish

Spec == Init /\ [][Next]_vars

-----------------------------------------------------------------------------
(* The summary parsers applied to an input text. *)

InitSummary ==
    /\ Idle
    /\ summary_in \in SummaryInputs
    /\ summary_out = None
    /\ inline_out = None
    /\ cov_in = NoCoverageInput
    /\ cov_out = NoCoverageOut
    /\ parsers = NoParsers

\* summary_out and inline_out hold the results of the successive calls, first call first
ParseTestSummary ==
    /\ Len(summary_out) < MaxParses
    /\ summary_out' = Append(summary_out, parse_test_summary(summary_in.text))
    /\ UNCHANGED <<pc, tool, path, path_exists, opts, fs, cmd, spawned, child, exc,
                   result, summary_in, inline_out, cov_in, cov_out, parsers>>

\* the statements of server.py lines 94-146 run on the same text
ParseInline ==
    /\ inline_out = None
    /\ inline_out' = Append(inline_out, InlineTestSummary(summary_in.text))
    /\ UNCHANGED <<pc, tool, path, path_exists, opts, fs, cmd, spawned, child, exc,
                   result, summary_in, summary_out, cov_in, cov_out, parsers>>

NextSummary ==
    \/ ParseTestSummary
    \/ ParseInline

SpecSummary == InitSummary /\ [][NextSummary]_vars

-----------------------------------------------------------------------------
(* The coverage parsers applied to an output text. *)

InitCoverage ==
    /\ Idle
    /\ summary_in = NoSummaryInput
    /\ summary_out = None
    /\ inline_out = None
    /\ cov_in \in TableInputs \cup ReportInputs \cup RowInputs
    /\ cov_out = NoCoverageOut
    /\ parsers = NoParsers

\* tools/coverage.py: parse_coverage_data(combined_output)
ParseCoverageData ==
    /\ cov_out.tools = None
    /\ cov_out' = [cov_out EXCEPT !.tools = Some(parse_coverage_data(cov_in.text))]
    /\ UNCHANGED <<server_vars, summary_vars, cov_in, parsers>>

\* util/coverage.py: CoverageParser(combined_output).data
ReadParserData ==
    /\ cov_out.util = None
    /\ cov_out' = [cov_out EXCEPT !.util = Some(ParserData(cov_in.text))]
    /\ UNCHANGED <<server_vars, summary_vars, cov_in, parsers>>

\* the statements of server.py lines 150-202 run on the same text
ParseInlineCoverage ==
    /\ cov_out.inline = None
    /\ cov_out' = [cov_out EXCEPT !.inline = Some(InlineCoverage(cov_in.text))]
    /\ UNCHANGED <<server_vars, summary_vars, cov_in, parsers>>

\* tools/coverage.py: _extract_coverage_entry(line.split()) on one line
ExtractCoverageEntry ==
    /\ cov_in.kind = "row"
    /\ cov_out.tools_entry = None
    /\ cov_out' = [cov_out EXCEPT !.tools_entry = Some(_extract_coverage_entry(SplitWS(cov_in.text)))]
    /\ UNCHANGED <<server_vars, summary_vars, cov_in, parsers>>

\* util/coverage.py: CoverageParser._table_entry(line.split()) on one line
TableEntry ==
    /\ cov_in.kind = "row"
    /\ cov_out.util_entry = None
    /\ cov_out' = [cov_out EXCEPT !.util_entry = Some(_table_entry(SplitWS(cov_in.text)))]
    /\ UNCHANGED <<server_vars, summary_vars, cov_in, parsers>>

NextCoverage ==
    \/ ParseCoverageData
    \/ ReadParserData
    \/ ParseInlineCoverage
    \/ ExtractCoverageEntry
    \/ TableEntry

SpecCoverage == InitCoverage /\ [][NextCoverage]_vars

-----------------------------------------------------------------------------
(* Tool.run of tools/base.py around PytestTool.handle of tools/pytest.py    *)
(* and around the handle of the base class. The variable tool holds the     *)
(* name of the class.                                                        *)

ToolClasses == {cls.PytestTool, cls.Tool}

\* the exceptions an await of the child process raises
AwaitExceptions ==
    {[kind |-> "Exception", type |-> cls.RuntimeError, text |-> text] : text \in ExceptionTexts}
    \cup {[kind |-> "BaseException", type |-> cls.CancelledError, text |-> <<>>]}

\* tool.run(ctx, path, args, verbose, coverage, coverage_source) is awaited
RunTool ==
    /\ pc = "idle"
    /\ pc' = "handling"
    /\ \E c \in ToolClasses, p \in Paths, e \in BOOLEAN, a \in ArgsChoices, v \in BOOLEAN,
          g \in BOOLEAN :
           /\ tool' = c
           /\ path' = p
           /\ path_exists' = e
           /\ opts' = [DefaultOpts EXCEPT !.args = a, !.verbose = v, !.coverage = g]
    /\ UNCHANGED <<fs, cmd, spawned, child, exc, result, summary_vars, coverage_vars>>

\* the except clause of run: the failure dictionary is returned, or the
\* exception leaves run
RunExcept(e) ==
    /\ exc' = Some(e)
    /\ IF CaughtByRun(e)
       THEN pc' = "returned" /\ result' = Some(RunFailure(tool, e))
       ELSE pc' = "raised" /\ result' = None

\* PytestTool.handle, lines 35-56: the path exists, the command is built and
\* the child process is spawned
HandleSpawn ==
    /\ pc = "handling"
    /\ tool = cls.PytestTool
    /\ path_exists
    /\ pc' = "awaiting"
    /\ cmd' = PytestTool_cmd(opts)
    /\ spawned' = spawned + 1
    /\ UNCHANGED <<tool, path, path_exists, opts, fs, child, exc, result,
                   summary_vars, coverage_vars>>

\* handle raises before a child exists: Tool.handle reads tool_name, which
\* raises NotImplementedError; PytestTool.handle raises FileNotFoundError for a
\* missing path, or the spawning raises
HandleRaises ==
    /\ pc = "handling"
    /\ \E e \in IF tool = cls.Tool
                THEN {[kind |-> "Exception", type |-> cls.NotImplementedError, text |-> <<>>]}
                ELSE IF ~path_exists
                THEN {[kind |-> "Exception", type |-> cls.FileNotFoundError,
                       text |-> PathNotFoundMessage(path)]}
                ELSE AwaitExceptions :
           RunExcept(e)
    /\ UNCHANGED <<tool, path, path_exists, opts, fs, cmd, spawned, child,
                   summary_vars, coverage_vars>>

\* PytestTool.handle, lines 58-92: communicate returns, both streams are
\* decoded (stderr first) and the result is returned through run; a stream that
\* is not UTF-8 raises UnicodeDecodeError
HandleReturns ==
    /\ pc = "awaiting"
    /\ \E rc \in ExitCodes, out \in StdoutBytes, err \in StderrBytes :
           /\ child' = Some([returncode |-> rc, stdout |-> out, stderr |-> err])
           /\ IF ~Decodable(err)
              THEN RunExcept([kind |-> "Exception", type |-> cls.UnicodeDecodeError,
                              text |-> DecodeErrorText(err)])
              ELSE IF ~Decodable(out)
              THEN RunExcept([kind |-> "Exception", type |-> cls.UnicodeDecodeError,
                              text |-> DecodeErrorText(out)])
              ELSE /\ pc' = "returned"
                   /\ result' = Some(PytestTool_handle(path, opts.coverage, rc, out, err))
                   /\ exc' = exc
    /\ UNCHANGED <<tool, path, path_exists, opts, fs, cmd, spawned,
                   summary_vars, coverage_vars>>

\* await process.communicate() raises
HandleAwaitRaises ==
    /\ pc = "awaiting"
    /\ \E e \in AwaitExceptions : RunExcept(e)
    /\ UNCHANGED <<tool, path, path_exists, opts, fs, cmd, spawned, child,
                   summary_vars, coverage_vars>>

NextTool ==
    \/ RunTool
    \/ HandleSpawn
    \/ HandleRaises
    \/ HandleReturns
    \/ HandleAwaitRaises

SpecTool == Init /\ [][NextTool]_vars

\* tools/pytest.py, lines 95-107: run_pytest(ctx, path, args, verbose, coverage,
\* coverage_source). PytestTool() is built without the arguments ctx and path
\* that Tool.__init__ requires: the call raises TypeError before run is awaited
RunPytest ==
    /\ pc = "idle"
    /\ pc' = "raised"
    /\ \E p \in Paths, e \in BOOLEAN, a \in ArgsChoices, v \in BOOLEAN, g \in BOOLEAN :
           /\ tool' = cls.run_pytest
           /\ path' = p
           /\ path_exists' = e
           /\ opts' = [DefaultOpts EXCEPT !.args = a, !.verbose = v, !.coverage = g]
    /\ exc' = Some([kind |-> "Exception", type |-> cls.TypeError, text |-> cls.missing_args])
    /\ UNCHANGED <<fs, cmd, spawned, child, result, summary_vars, coverage_vars>>

\* the callers of tools/pytest.py: of run_pytest, and of run on a tool they built
NextRunPytest ==
    \/ RunPytest
    \/ NextTool

SpecRunPytest == Init /\ [][NextRunPytest]_vars

-----------------------------------------------------------------------------
(* util/coverage.py: CoverageParser in concurrent invocations, one instance *)
(* each, one step per line read.                                            *)

\* self._in_coverage_table read: the attribute of the instance if it has one,
\* else the attribute of the class
GetFlag(p, i) ==
    IF p.instances[i].dict # None THEN p.instances[i].dict[1] ELSE p.in_coverage_table

\* SetFlag that assigns the attribute of the class
SetFlagOnClass(p, i, value) == [p EXCEPT !.in_coverage_table = value]

\* self._in_coverage_table = value: the assignment makes an attribute of the instance
SetFlag(p, i, value) == [p EXCEPT !.instances[i].dict = Some(value)]

\* CoverageParser(combined_output)
NewParser(i) ==
    /\ parsers.instances[i].state = "none"
    /\ \E text \in ConcurrentOutputs :
           parsers' = [parsers EXCEPT !.instances[i] =
                          [NoInstance EXCEPT !.state = "reading", !.combined_output = text,
                                             !.lines = SplitLines(text)]]
    /\ UNCHANGED <<server_vars, summary_vars, cov_in, cov_out>>

\* one iteration of the loop of the property table: _table_row(line)
ReadLine(i) ==
    /\ parsers.instances[i].state = "reading"
    /\ parsers.instances[i].lines # <<>>
    /\ LET inst == parsers.instances[i]
           r    == _table_row(GetFlag(parsers, i), Head(inst.lines))
           read == [parsers EXCEPT !.instances[i].lines = Tail(@),
                                   !.instances[i].table_rows =
                                       IF r.row # None /\ r.row[1] # <<>>
                                       THEN Append(@, r.row[1])
                                       ELSE @]
       IN  parsers' = IF r.in_table # GetFlag(parsers, i)
                      THEN SetFlag(read, i, r.in_table)
                      ELSE read
    /\ UNCHANGED <<server_vars, summary_vars, cov_in, cov_out>>

\* the property data returns the report of the rows of the table
ReturnData(i) ==
    /\ parsers.instances[i].state = "reading"
    /\ parsers.instances[i].lines = <<>>
    /\ parsers' = [parsers EXCEPT !.instances[i].state = "done",
                                   !.instances[i].data =
                                       Some(ParseRows(EmptyParserData, parsers.instances[i].table_rows))]
    /\ UNCHANGED <<server_vars, summary_vars, cov_in, cov_out>>

NextConcurrent ==
    \/ \E i \in Invocations : NewParser(i)
    \/ \E i \in Invocations : ReadLine(i)
    \/ \E i \in Invocations : ReturnData(i)

SpecConcurrent == Init /\ [][NextConcurrent]_vars

-----------------------------------------------------------------------------
(* The pipes between the child and process.communicate(). The child writes  *)
(* chunks to stdout and stderr in any order and blocks on a full pipe;      *)
(* communicate reads both pipes as they fill, gathers what it read and      *)
(* returns when both are at their end and the child has exited.             *)

Streams == {"stdout", "stderr"}

\* what the child writes in one write
Chunk == Unlines(<<sample.line_error>>)

\* an operation is invoked with its default options
CallDefault ==
    /\ pc = "idle"
    /\ \E t \in {"pytest", "mypy", "flake8"}, p \in Paths, e \in BOOLEAN :
           Call(t, p, e, DefaultOpts, DefaultFs)

\* await asyncio.create_subprocess_exec(*cmd, stdout=PIPE, stderr=PIPE): the
\* child starts with todo[s] chunks to write to stream s and two empty pipes
SpawnChild ==
    /\ pc = "spawning"
    /\ pc' = "communicating"
    /\ spawned' = spawned + 1
    /\ cmd' = <<>>
    /\ \E todo \in [Streams -> 0..MaxChunks] :
           child' = Some([todo       |-> todo,
                          pipe       |-> [s \in Streams |-> 0],
                          read       |-> [s \in Streams |-> <<>>],
                          returncode |-> None])
    /\ UNCHANGED <<tool, path, path_exists, opts, fs, exc, result, summary_vars, coverage_vars>>

\* the child writes a chunk to stream s, whose pipe has room
ChildWrites(s) ==
    /\ pc = "communicating"
    /\ child[1].todo[s] > 0
    /\ child[1].pipe[s] < PipeCapacity
    /\ child' = Some([child[1] EXCEPT !.todo[s] = @ - 1, !.pipe[s] = @ + 1])
    /\ UNCHANGED <<pc, tool, path, path_exists, opts, fs, cmd, spawned, exc, result,
                   summary_vars, coverage_vars>>

\* the child has written everything: it closes its streams and exits
ChildExit ==
    /\ pc = "communicating"
    /\ child[1].returncode = None
    /\ \A s \in Streams : child[1].todo[s] = 0
    /\ \E rc \in ExitCodes : child' = Some([child[1] EXCEPT !.returncode = Some(rc)])
    /\ UNCHANGED <<pc, tool, path, path_exists, opts, fs, cmd, spawned, exc, result,
                   summary_vars, coverage_vars>>

\* Drain that reads stderr only once stdout is at its end
DrainStdoutFirst(s) ==
    /\ pc = "communicating"
    /\ child[1].pipe[s] > 0
    /\ s = "stderr" => (child[1].returncode # None /\ child[1].pipe["stdout"] = 0)
    /\ child' = Some([child[1] EXCEPT !.pipe[s] = @ - 1, !.read[s] = @ \o Chunk])
    /\ UNCHANGED <<pc, tool, path, path_exists, opts, fs, cmd, spawned, exc, result,
                   summary_vars, coverage_vars>>

\* communicate reads a chunk from the pipe of stream s; the readers of the two
\* streams are gathered, neither waits for the other
Drain(s) ==
    /\ pc = "communicating"
    /\ child[1].pipe[s] > 0
    /\ child' = Some([child[1] EXCEPT !.pipe[s] = @ - 1, !.read[s] = @ \o Chunk])
    /\ UNCHANGED <<pc, tool, path, path_exists, opts, fs, cmd, spawned, exc, result,
                   summary_vars, coverage_vars>>

\* await process.communicate() returns (stdout, stderr): both streams are at
\* their end and the child has exited
CommunicateReturns ==
    /\ pc = "communicating"
    /\ child[1].returncode # None
    /\ \A s \in Streams : child[1].pipe[s] = 0
    /\ pc' = "decoding"
    /\ child' = Some([returncode |-> child[1].returncode[1],
                      stdout     |-> child[1].read["stdout"],
                      stderr     |-> child[1].read["stderr"]])
    /\ UNCHANGED <<tool, path, path_exists, opts, fs, cmd, spawned, exc, result,
                   summary_vars, coverage_vars>>

NextPipes ==
    \/ CallDefault
    \/ Validate
    \/ Build
    \/ SpawnChild
    \/ \E s \in Streams : ChildWrites(s)
    \/ ChildExit
    \/ \E s \in Streams : Drain(s)
    \/ CommunicateReturns
    \/ Finish

\* the steps of the child and of communicate
PipeSteps ==
    \/ \E s \in Streams : ChildWrites(s)
    \/ ChildExit
    \/ \E s \in Streams : Drain(s)
    \/ CommunicateReturns

\* while the child can write or exit, or communicate has something to read or
\* can return, one of them takes a step; and the statements after communicate,
\* which await nothing, run to their end
SpecPipes == Init /\ [][NextPipes]_vars /\ WF_vars(PipeSteps) /\ []<>(pc # "decoding")

-----------------------------------------------------------------------------
(* Return paths of an invocation. *)

\* the invocation returned because the path does not exist
ReturnedMissingPath == pc = "returned" /\ ~path_exists

\* the invocation returned from its except clause
ReturnedCaught == pc = "returned" /\ exc # None

\* the invocation returned from the statements that classify the exit code:
\* the child was spawned, has exited, and both streams were decoded
ReturnedByExitCode == pc = "returned" /\ child # None /\ exc = None

Linters == {"mypy", "flake8"}

-----------------------------------------------------------------------------
(* Properties of the operations of server.py. *)

\* C1: every envelope returned by pytest, mypy or flake8, on every return path,
\* is a mapping with exactly the keys success, data and error; data is non-null
\* exactly when success is true, error is non-null exactly when success is false.
C1_EnvelopeShape ==
    result # None =>
        /\ DOMAIN result[1] = {"success", "data", "error"}
        /\ result[1].success \in BOOLEAN
        /\ (result[1].data # None) <=> result[1].success
        /\ (result[1].error # None) <=> ~result[1].success

\* an envelope was returned for an abnormal exit code of a linter
C1_Witness ==
    /\ ReturnedByExitCode
    /\ tool = "mypy"
    /\ child[1].returncode = 2
    /\ ~result[1].success

\* C2: when the target path does not exist, each operation returns exactly
\* {success: false, data: null, error: "Path '<path>' does not exist"} with
\* <path> the string the caller gave; it does nothing else.
C2_MissingPath ==
    (pc \notin {"idle", "validating"} /\ ~path_exists) =>
        /\ pc = "returned"
        /\ result = Some([success |-> FALSE,
                          data    |-> None,
                          error   |-> Some(msg.path_pre \o path \o msg.path_post)])

\* flake8 returned for a missing path that pathlib would write differently
C2_Witness ==
    /\ ReturnedMissingPath
    /\ tool = "flake8"
    /\ path = sample.path_rel
    /\ PathStr(PathOf(path)) # path

C4_LinterExitCodes ==
    (ReturnedByExitCode /\ tool \in Linters) =>
        LET rc == child[1].returncode
        IN  /\ result[1].success <=> rc \in {0, 1}
            /\ rc \notin {0, 1} =>
                   result = Some([success |-> FALSE,
                                  data    |-> None,
                                  error   |-> Some(ToolStr(tool) \o msg.failed
                                                      \o child[1].stderr)])

\* flake8 returned the failure envelope for a child killed by a signal that
\* wrote nothing to stderr
C4_Witness ==
    /\ ReturnedByExitCode
    /\ tool = "flake8"
    /\ child[1].returncode < 0
    /\ child[1].stderr = <<>>
    /\ result[1].error = Some(str.flake8 \o msg.failed)

\* C5: on the envelopes pytest returns once the child has exited and its output
\* is decoded, success is true for every exit code; the message is 'All tests
\* passed successfully' exactly when the exit code is 0 and 'Some tests failed'
\* for every other exit code.
C5_PytestExitCodes ==
    (ReturnedByExitCode /\ tool = "pytest") =>
        LET rc == child[1].returncode
        IN  /\ result[1].success
            /\ result[1].data # None
            /\ (result[1].data[1].message = msg.all_passed) <=> (rc = 0)
            /\ rc # 0 => result[1].data[1].message = msg.some_failed

\* pytest returned success for an exit code other than 0 and 1
C5_Witness ==
    /\ ReturnedByExitCode
    /\ tool = "pytest"
    /\ child[1].returncode \notin {0, 1}
    /\ result[1].success
    /\ result[1].data[1].message = msg.some_failed

\* C6: in every success envelope of mypy and flake8, issues_count is a
\* non-negative integer, has_issues equals (issues_count > 0), and the message is
\* 'No issues found' exactly when issues_count is 0, for exit code 0 and for exit
\* code 1; otherwise it is 'Found <n> type issues' (mypy), 'Found <n> issues'
\* (flake8).
C6_IssueCounts ==
    (ReturnedByExitCode /\ tool \in Linters /\ result[1].success) =>
        LET data == result[1].data[1]
            n    == data.issues_count
        IN  /\ n \in Nat
            /\ data.has_issues \in BOOLEAN
            /\ data.has_issues <=> (n > 0)
            /\ (data.message = msg.no_issues) <=> (n = 0)
            /\ n > 0 =>
                   data.message =
                       msg.found \o IntToStr(n)
                           \o (IF tool = "mypy" THEN msg.type_issues ELSE msg.issues)

\* flake8 exited with code 1 and an empty standard output: no issues reported
C6_Witness ==
    /\ ReturnedByExitCode
    /\ tool = "flake8"
    /\ child[1].returncode = 1
    /\ child[1].stdout = <<>>
    /\ result[1].success
    /\ result[1].data[1].message = msg.no_issues

-----------------------------------------------------------------------------
(* Properties of the summary parser. *)

\* the count a generated summary line carries for keyword k, 0 when absent
Given(k) == IF summary_in.counts[k] = None THEN 0 ELSE summary_in.counts[k][1]

\* C8: for every summary line '=== N1 passed, N2 failed, N3 skipped, N4 xfailed,
\* N5 xpassed in Ts ===' with any non-empty subset of the five fragments,
\* parse_test_summary returns passed = N1, failed = N2, skipped = N3, xfailed =
\* N4, xpassed = N5 (0 for an absent fragment) and total = N1+N2+N3+N4+N5.
C8_WellFormedLine ==
    (summary_in.kind = "line" /\ summary_out # None) =>
        summary_out[1] =
            [total   |-> Given(1) + Given(2) + Given(3) + Given(4) + Given(5),
             passed  |-> Given(1),
             failed  |-> Given(2),
             skipped |-> Given(3),
             xfailed |-> Given(4),
             xpassed |-> Given(5)]

\* a line with all five fragments, a two-digit count among them, was parsed
C8_Witness ==
    /\ summary_in.kind = "line"
    /\ \A k \in 1..5 : summary_in.counts[k] # None
    /\ summary_in.counts[4] = Some(BigCount)
    /\ summary_in.counts[5] = Some(MaxCount)
    /\ summary_out # None
    /\ summary_out[1].xfailed = BigCount

\* C9 as stated: for the text '1 xpassed in 0.01s' the parser returns passed = 0
\* and xpassed = 1.
C9_Original ==
    (summary_in.text = free.bare /\ summary_out # None) =>
        /\ summary_out[1].passed = 0
        /\ summary_out[1].xpassed = 1

\* C9 amended: for the text '=== 1 xpassed in 0.01s ===' the parser returns
\* passed = 0 and xpassed = 1; for the text '1 xpassed in 0.01s', which holds no
\* '=', it returns the all-zero summary.
C9_XpassedNotPassed ==
    summary_out # None =>
        /\ summary_in.text = free.delimited =>
               /\ summary_out[1].passed = 0
               /\ summary_out[1].xpassed = 1
        /\ summary_in.text = free.bare => summary_out[1] = ZeroSummary

\* the delimited line was parsed
C9_Witness ==
    /\ summary_in.text = free.delimited
    /\ summary_out # None
    /\ summary_out[1].total = 1

\* C10: for every input text, the summary returned by parse_test_summary and the
\* one computed inline by the pytest operation satisfy total = passed + failed +
\* skipped + xfailed + xpassed, also when the text names another total.
C10_TotalIsSum ==
    /\ summary_out # None =>
           summary_out[1].total =
               summary_out[1].passed + summary_out[1].failed + summary_out[1].skipped
                   + summary_out[1].xfailed + summary_out[1].xpassed
    /\ inline_out # None =>
           inline_out[1].total =
               inline_out[1].passed + inline_out[1].failed + inline_out[1].skipped
                   + inline_out[1].xfailed + inline_out[1].xpassed

\* a text whose summary line names a total of its own was parsed by both
C10_Witness ==
    /\ summary_in.text = free.total
    /\ summary_out # None
    /\ inline_out # None
    /\ summary_out[1].total = 1
    /\ inline_out[1].total = 1

\* the six fields of a summary are natural numbers
NonNegative(ts) ==
    /\ ts.total \in Nat
    /\ ts.passed \in Nat
    /\ ts.failed \in Nat
    /\ ts.skipped \in Nat
    /\ ts.xfailed \in Nat
    /\ ts.xpassed \in Nat

\* C11 as stated: for every input text, total, passed, failed, skipped, xfailed
\* and xpassed of the summary the parser returns are non-negative integers.
C11_Original ==
    /\ \A i \in 1..Len(summary_out) : NonNegative(summary_out[i])
    /\ \A i \in 1..Len(inline_out) : NonNegative(inline_out[i])

\* the lines of the input text
InputLines == SplitLines(summary_in.text)

\* the text holds no line with both a '=' and an outcome keyword
NoSummaryLine ==
    \A i \in 1..Len(InputLines) :
        \/ ~Contains(InputLines[i], <<"=">>)
        \/ \A k \in 1..Len(Keywords) : ~Contains(InputLines[i], Keywords[k])

\* C12: for a text with no summary line (the empty text, arbitrary text, the
\* line '=== no tests ran in 0.1s ===') parse_test_summary returns the all-zero
\* summary, and every further parse of the same text returns it again.
C12_NoSummaryLine ==
    NoSummaryLine =>
        \A i \in 1..Len(summary_out) :
            summary_out[i] =
                [total |-> 0, passed |-> 0, failed |-> 0, skipped |-> 0,
                 xfailed |-> 0, xpassed |-> 0]

\* the text 'Test output' followed by '=== no tests ran in 0.1s ===' was parsed twice
C12_Witness ==
    /\ summary_in.text = Join(<<free.plain, free.no_tests>>, str.nl)
    /\ NoSummaryLine
    /\ Len(summary_out) = 2
    /\ summary_out[2] = summary_out[1]

-----------------------------------------------------------------------------
(* Properties of the coverage parsers. *)

\* the names of the file rows of the generated table
RowNames == {cov_in.rows[i].name : i \in 1..Len(cov_in.rows)}

\* the last file row of the generated table that carries the name
LastRow(name) ==
    cov_in.rows[CHOOSE i \in 1..Len(cov_in.rows) :
                    /\ cov_in.rows[i].name = name
                    /\ \A j \in (i + 1)..Len(cov_in.rows) : cov_in.rows[j].name # name]

\* the report says what the generated table says: total is the percentage of
\* the TOTAL row, by_file holds the names of the file rows and no other key,
\* each with the percentage of its row
SaysTheTable(report) ==
    /\ report.total = cov_in.total.val
    /\ DOMAIN report.by_file = RowNames
    /\ \A name \in RowNames : report.by_file[name] = LastRow(name).pct.val

NoValidTable(stdout_output) ==
    \/ ~Contains(stdout_output, hdr.Cover)
    \/ stdout_output = InvalidTableOutput

\* coverage is a report: a mapping with the keys total and by_file
IsReport(coverage) == coverage # None /\ DOMAIN coverage[1] = {"total", "by_file"}

-----------------------------------------------------------------------------
(* Properties of PytestTool.handle run through Tool.run. *)

\* run returned the dictionary of PytestTool.handle
HandleReturned ==
    /\ pc = "returned"
    /\ tool = cls.PytestTool
    /\ result # None
    /\ result[1].success

\* C15 as stated: the coverage result is null when the combined output does
\* not contain 'Required test coverage', and a report when it contains it.
C15_Original ==
    HandleReturned =>
        LET data == result[1].data[1]
        IN  (data.coverage # None) <=> Contains(data.output, table.sentinel)

\* a line of the output starts with FAIL
HasFailRow(output) ==
    \E i \in 1..Len(SplitLines(output)) : StartsWith(SplitLines(output)[i], str.FAIL)

\* C16 as stated: when the output holds a row starting with FAIL the coverage
\* report carries the failure marker and the issue count of the result is the
\* number of failed tests plus one; without such a row the issue count is the
\* number of failed tests.
C16_Original ==
    HandleReturned =>
        LET data == result[1].data[1]
        IN  /\ "issues_count" \in DOMAIN data
            /\ IF HasFailRow(data.output)
               THEN /\ data.coverage # None
                    /\ "failure" \in DOMAIN data.coverage[1]
                    /\ data.issues_count = data.test_summary.failed + 1
               ELSE data.issues_count = data.test_summary.failed

-----------------------------------------------------------------------------
(* Properties of the issue count of mypy. *)

\* number of lines of the text that contain ': error:'
ErrorLines(stdout_output) ==
    Cardinality({i \in 1..Len(SplitLines(stdout_output)) :
                    Contains(SplitLines(stdout_output)[i], str.error_marker)})

\* C17 as stated: for mypy with exit code 0 or 1, issues_count is the number of
\* lines of standard output that contain ': error:', lines of standard error
\* never counting; has_issues and the message follow that number.
C17_Original ==
    (ReturnedByExitCode /\ tool = "mypy" /\ child[1].returncode \in {0, 1}) =>
        LET data == result[1].data[1]
            n    == ErrorLines(child[1].stdout)
        IN  /\ data.issues_count = n
            /\ data.has_issues <=> n > 0
            /\ n > 0 => data.message = msg.found \o IntToStr(n) \o msg.type_issues

-----------------------------------------------------------------------------
(* Properties of Tool.run. *)

\* the name run derives from the class: 'pytest' for PytestTool, the empty
\* string for Tool
ExpectedName == IF tool = cls.PytestTool THEN str.pytest ELSE <<>>

\* C18: Tool.run never raises. When handle returns, run returns its value
\* unchanged; when handle raises any exception, BaseException subclasses
\* included, run returns success = false, data = null and the error 'Failed to
\* run <name>: <exception text>' followed by a newline and the traceback, <name>
\* being the class name lower-cased with 'tool' removed.
C18_RunNeverRaises ==
    /\ pc # "raised"
    /\ (pc = "returned" /\ exc = None) =>
           /\ child # None
           /\ result = Some(PytestTool_handle(path, opts.coverage, child[1].returncode,
                                              child[1].stdout, child[1].stderr))
    /\ (pc = "returned" /\ exc # None) =>
           result = Some([success |-> FALSE,
                          data    |-> None,
                          error   |-> Some(msg.failed_to_run \o ExpectedName \o msg.colon
                                           \o exc[1].text \o str.nl \o Traceback(exc[1]))])

\* the await of the child was cancelled inside PytestTool.handle and run
\* returned the failure dictionary
C18_Witness ==
    /\ pc = "returned"
    /\ tool = cls.PytestTool
    /\ spawned = 1
    /\ exc # None
    /\ exc[1].kind = "BaseException"
    /\ result # None
    /\ ~result[1].success
    /\ StartsWith(result[1].error[1], msg.failed_to_run \o str.pytest \o msg.colon \o str.nl)

-----------------------------------------------------------------------------
(* Properties of the commands. *)

\* the arguments the caller supplied, none for None
CallerArgs == IF opts.args = None THEN <<>> ELSE opts.args[1]

\* c is the executable, then flags only (an element that starts with '-', or
\* the value that follows --config-file), then the caller's arguments in their
\* order, then the elements of last
Ordered(c, executable, last) ==
    LET k == Len(c) - Len(CallerArgs) - Len(last)
    IN  /\ k >= 1
        /\ c[1] = executable
        /\ \A i \in 2..k : StartsWith(c[i], <<"-">>) \/ c[i - 1] = flag.config_file
        /\ SubSeq(c, k + 1, k + Len(CallerArgs)) = CallerArgs
        /\ SubSeq(c, k + Len(CallerArgs) + 1, Len(c)) = last

\* C19: in every command built for a child process the executable is first,
\* every built-in or option-derived flag (config file, excludes, disallow
\* flags, max line length, -v, coverage flags) precedes every argument of the
\* caller, the caller's arguments keep their order, and for mypy and flake8
\* the path is the last element. The same holds of the command of
\* PytestTool.handle and of Tool.command.
C19_CommandOrder ==
    pc = "spawning" =>
        /\ Ordered(cmd, ToolStr(tool), IF tool = "pytest" THEN <<>> ELSE <<path>>)
        /\ Ordered(PytestTool_cmd(opts), str.pytest, <<>>)
        /\ Ordered(command(ToolStr(tool), <<flag.v>>, opts.args), ToolStr(tool), <<>>)

\* mypy's command was built with a config file, an exclude entry, both
\* disallow flags and two arguments of the caller
C19_Witness ==
    /\ pc = "spawning"
    /\ tool = "mypy"
    /\ opts.args = Some(<<sample.arg_x, sample.arg_src>>)
    /\ opts.exclude # None
    /\ opts.disallow_untyped_defs
    /\ opts.disallow_incomplete_defs
    /\ Len(cmd) = 9
    /\ cmd[2] = flag.config_file
    /\ cmd[9] = path

-----------------------------------------------------------------------------
(* Properties of the choice of the summary line. *)

\* the line is delimited by '=' on both sides and names an outcome
Delimited(line) ==
    /\ StartsWith(line, <<"=">>)
    /\ EndsWith(line, <<"=">>)
    /\ \E k \in 1..Len(Keywords) : Contains(line, Keywords[k])

\* the last line of the input is its only delimited line
EndsWithSummaryLine ==
    /\ InputLines # <<>>
    /\ Delimited(InputLines[Len(InputLines)])
    /\ \A i \in 1..(Len(InputLines) - 1) : ~Delimited(InputLines[i])

\* C20 as stated: the counts are those of the summary line delimited by '=' on
\* both sides at the end of the output, also when an earlier line holds '=' and
\* an outcome keyword without being delimited, as 'assert passed == 1' does.
C20_Original ==
    EndsWithSummaryLine =>
        /\ \A i \in 1..Len(summary_out) :
               summary_out[i] = _parse_summary(ZeroSummary, InputLines[Len(InputLines)])
        /\ \A i \in 1..Len(inline_out) :
               inline_out[i] = _parse_summary(ZeroSummary, InputLines[Len(InputLines)])

-----------------------------------------------------------------------------
(* The end of the coverage table. *)

\* the lines of the report given to the coverage parsers
CoverageLinesIn == SplitLines(cov_in.text)

\* the lines of a report that a parser still in the table reads with TOTAL in
\* them: the header is the first line and no empty line comes before them
TotalLines ==
    {i \in 2..Len(CoverageLinesIn) :
        /\ Contains(CoverageLinesIn[i], str.TOTAL)
        /\ \A j \in 2..(i - 1) : Strip(CoverageLinesIn[j], Whitespace) # <<>>}

FirstTotalLine == CHOOSE i \in TotalLines : \A j \in TotalLines : i <= j

\* the report up to and including its first line with TOTAL
UpToTotal == Unlines(SubSeq(CoverageLinesIn, 1, FirstTotalLine))

\* C21: once CoverageParser has captured the row containing TOTAL, no later
\* line adds an entry to by_file or changes total: the report has the total and
\* the by_file of the text cut after that row.
C21_Original ==
    (cov_in.kind = "report" /\ cov_out.util # None /\ TotalLines # {}) =>
        /\ cov_out.util[1].total = ParserData(UpToTotal).total
        /\ cov_out.util[1].by_file = ParserData(UpToTotal).by_file

\* the entry of line i of the report, for a line that is not empty
EntryOfLine(i) == _extract_coverage_entry(SplitWS(CoverageLinesIn[i]))

\* the lines of the table, before any empty line, that hold a usable row
UsableLines ==
    {i \in 2..Len(CoverageLinesIn) :
        /\ \A j \in 2..i : Strip(CoverageLinesIn[j], Whitespace) # <<>>
        /\ EntryOfLine(i).ok}

\* the usable rows whose name is exactly TOTAL
ExactTotalLines == {i \in UsableLines : EntryOfLine(i).file_path = str.TOTAL}

FirstExactTotal == CHOOSE i \in ExactTotalLines : \A j \in ExactTotalLines : i <= j

\* C22: in the report of parse_coverage_data the row named exactly TOTAL sets
\* total, and every usable row between the header and that row is a key of
\* by_file, a row such as 'TOTALS.py 10 2 80%' included.
C22_Original ==
    (cov_in.kind = "report" /\ cov_out.tools # None /\ ExactTotalLines # {}) =>
        /\ cov_out.tools[1].total = EntryOfLine(FirstExactTotal).value
        /\ \A i \in UsableLines :
               (i < FirstExactTotal /\ ~StartsWith(EntryOfLine(i).file_path, str.FAIL)) =>
                   EntryOfLine(i).file_path \in DOMAIN cov_out.tools[1].by_file

-----------------------------------------------------------------------------
(* The entry of one table row. *)

\* the entry is the one the line stands for: none for a line of fewer than
\* four fields or with a last field that is no percentage, else the name words
\* one blank apart and the number of the last field
SaysTheRow(entry) ==
    IF cov_in.rows = <<>>
    THEN ~entry.ok
    ELSE /\ entry.ok
         /\ entry.file_path = cov_in.rows[1].name
         /\ entry.value = cov_in.rows[1].pct.val

\* C23: for a row of n fields, _table_entry and _extract_coverage_entry return
\* an entry only if n > 3 and the last field ends in '%' before which a number
\* stands; the name is the first n-3 fields joined by single blanks and the
\* value the number of the last field; every other row yields no entry.
C23_RowEntry ==
    cov_in.kind = "row" =>
        /\ cov_out.tools_entry # None => SaysTheRow(cov_out.tools_entry[1])
        /\ cov_out.util_entry # None => SaysTheRow(cov_out.util_entry[1])

\* the line 'my  b.py  10  2  62.5%' was given to both functions, which named
\* the entry 'my b.py'
C23_Witness ==
    /\ cov_in.kind = "row"
    /\ cov_in.text = Join(<<<<"m", "y">>, table.name_b, table.stmts, table.miss, <<"6", "2", ".", "5", "%">>>>, table.gap)
    /\ cov_out.tools_entry # None
    /\ cov_out.util_entry # None
    /\ cov_out.util_entry[1].ok
    /\ cov_out.util_entry[1].file_path = <<"m", "y", " ", "b", ".", "p", "y">>
    /\ cov_out.tools_entry = cov_out.util_entry

-----------------------------------------------------------------------------
(* The range of the percentages of a report. *)

RECURSIVE PowerOfTen(_)
PowerOfTen(e) == IF e = 0 THEN 1 ELSE 10 * PowerOfTen(e - 1)

\* 0 <= v <= 100 for a float v = m / 10^e
IsPercentage(v) == v.kind = "finite" /\ 0 <= v.m /\ v.m <= 100 * PowerOfTen(v.e)

PercentagesOnly(report) ==
    /\ IsPercentage(report.total)
    /\ \A name \in DOMAIN report.by_file : IsPercentage(report.by_file[name])

\* C24: for every text, the total of the report and every value of its by_file
\* lie between 0 and 100.
C24_Original ==
    /\ cov_out.tools # None => PercentagesOnly(cov_out.tools[1])
    /\ cov_out.util # None => PercentagesOnly(cov_out.util[1])
    /\ cov_out.inline # None => PercentagesOnly(cov_out.inline[1])

-----------------------------------------------------------------------------
(* The exclude flags of the mypy command. *)

IsExcludeFlag(word) == StartsWith(word, flag.exclude_eq)

\* the words --exclude=... of the command, in order
ExcludesOf(words) == SelectSeq(words, IsExcludeFlag)

\* of the paths given to the operations, the one whose name is tests
NamedTests == path = sample.path_tests

\* C25: the mypy command holds the automatic '--exclude=tests/' exactly when the
\* caller gave no exclude entries, the name of the path is not 'tests' and the
\* path has a directory tests; with entries given it holds one
\* '--exclude=<entry>' per entry and nothing else; an error of the probe adds
\* no exclude and the command is built all the same.
C25_AutoExclude ==
    (tool = "mypy" /\ pc = "spawning") =>
        ExcludesOf(cmd) =
            IF opts.exclude # None /\ opts.exclude[1] # <<>>
            THEN [i \in 1..Len(opts.exclude[1]) |-> flag.exclude_eq \o opts.exclude[1][i]]
            ELSE IF ~NamedTests /\ fs.tests_dir = "dir"
            THEN <<flag.exclude_tests>>
            ELSE <<>>

\* the command of a path with a directory tests and no exclude given holds the
\* automatic exclude
C25_Witness ==
    /\ tool = "mypy"
    /\ pc = "spawning"
    /\ opts.exclude = None
    /\ fs.tests_dir = "dir"
    /\ ExcludesOf(cmd) = <<flag.exclude_tests>>

-----------------------------------------------------------------------------
(* The child processes of one invocation. *)

\* C26: in one invocation of an operation at most one child process is
\* spawned, it is spawned only after the path was found to exist, and for a
\* missing path none is ever spawned.
C26_SpawnOnce ==
    [][/\ spawned' # spawned => (spawned = 0 /\ spawned' = 1 /\ path_exists /\ pc # "validating")
       /\ ~path_exists' => spawned' = 0]_vars

\* an invocation on an existing path returned after its one child was spawned
C26_Witness ==
    /\ pc = "returned"
    /\ path_exists
    /\ spawned = 1
    /\ child # None

-----------------------------------------------------------------------------
(* The draining of the two streams. *)

-----------------------------------------------------------------------------
(* Concurrent invocations. *)

-----------------------------------------------------------------------------
(* The three coverage parsers on one text. *)

SameReport(a, b) == a.total = b.total /\ a.by_file = b.by_file

\* C29: for every combined output, the parser inlined in the pytest operation,
\* parse_coverage_data and CoverageParser.data return the same total and the
\* same by_file.
C29_Original ==
    /\ (cov_out.tools # None /\ cov_out.util # None) => SameReport(cov_out.tools[1], cov_out.util[1])
    /\ (cov_out.tools # None /\ cov_out.inline # None) => SameReport(cov_out.tools[1], cov_out.inline[1])
    /\ (cov_out.util # None /\ cov_out.inline # None) => SameReport(cov_out.util[1], cov_out.inline[1])

-----------------------------------------------------------------------------
(* The function run_pytest. *)

\* C30: run_pytest never raises: every invocation of it returns an envelope,
\* with success = false and data = null when the path does not exist.
C30_Original ==
    (pc # "idle" /\ tool = cls.run_pytest) =>
        /\ pc # "raised"
        /\ (pc = "returned" /\ ~path_exists) =>
               (result # None /\ ~result[1].success /\ result[1].data = None)

=============================================================================
